---- MODULE Spec2Model ----
(***************************************************************************)
(* A model of the Grok refactor service: the repository-modification       *)
(* endpoint, the batch (directory) refactor service, the directory         *)
(* handler, the provider-key checks of the services, and the CLI / cron    *)
(* script in its basic and extended revisions.                             *)
(*                                                                         *)
(* Texts are sequences of characters and paths are sequences of segments,  *)
(* so that trimming and path resolution are computed, not assumed.         *)
(***************************************************************************)
EXTENDS Integers, Sequences, FiniteSets, TLC

\* ------------------------------------------------------------------ bounds
MaxTextLen == 2
MaxSegs == 2
MaxFiles == 2
MaxReplyLen == 3
MaxBatchFiles == 3
MaxBlocks == 2
MaxCalls == 3

\* ------------------------------------------------------------------- texts
Chars == {"a", " "}

RECURSIVE SeqsUpTo(_, _)
SeqsUpTo(S, n) ==
  IF n = 0 THEN {<<>>}
  ELSE LET shorter == SeqsUpTo(S, n - 1)
       IN shorter \cup {Append(s, c) : s \in shorter, c \in S}

Texts == SeqsUpTo(Chars, MaxTextLen)

RECURSIVE TrimStart(_)
TrimStart(s) ==
  IF s = <<>> THEN <<>>
  ELSE IF Head(s) = " " THEN TrimStart(Tail(s)) ELSE s

RECURSIVE TrimEnd(_)
TrimEnd(s) ==
  IF s = <<>> THEN <<>>
  ELSE IF s[Len(s)] = " " THEN TrimEnd(SubSeq(s, 1, Len(s) - 1)) ELSE s

\* String.prototype.trim
Trim(s) == TrimEnd(TrimStart(s))

\* a value that is not text: undefined, absent, a number, an object
NotText == <<"#">>

\* !value for a value that is text or undefined
Falsy(value) == value = NotText \/ value = <<>>

\* ------------------------------------------------------------------- paths
\* A path string is its segments and whether it starts at the root. The
\* empty relative path is the empty string.
Segments == {"repo", "sub", "f", ".."}

PathArgs ==
  [abs : BOOLEAN, segs : SeqsUpTo(Segments, MaxSegs)]

EmptyPath == [abs |-> FALSE, segs |-> <<>>]

\* scripts: repoRoot = path.resolve(__dirname, ".."), an absolute normalized
\* path, given here as its segments
repoRoot == <<"repo">>

RECURSIVE NormalizeInto(_, _)
NormalizeInto(acc, rest) ==
  IF rest = <<>> THEN acc
  ELSE IF Head(rest) = "."
       THEN NormalizeInto(acc, Tail(rest))
  ELSE IF Head(rest) = ".."
       THEN NormalizeInto(IF acc = <<>> THEN <<>>
                          ELSE SubSeq(acc, 1, Len(acc) - 1), Tail(rest))
       ELSE NormalizeInto(Append(acc, Head(rest)), Tail(rest))

\* the location an absolute path string names (".." segments applied)
Normalize(segs) == NormalizeInto(<<>>, segs)

\* path.resolve(base, p): absolute and normalized
pathResolve(base, p) ==
  IF p.abs THEN Normalize(p.segs) ELSE Normalize(base \o p.segs)

\* candidate.startsWith(dir + path.sep) on the raw strings
StartsWithDir(segs, dir) ==
  /\ Len(segs) > Len(dir)
  /\ SubSeq(segs, 1, Len(dir)) = dir

\* a location is inside a directory: the directory itself or below it
Inside(loc, dir) == loc = dir \/ StartsWithDir(loc, dir)

RECURSIVE CommonPrefixLen(_, _)
CommonPrefixLen(a, b) ==
  IF a = <<>> \/ b = <<>> THEN 0
  ELSE IF Head(a) = Head(b) THEN 1 + CommonPrefixLen(Tail(a), Tail(b)) ELSE 0

\* path.relative(from, to): both are resolved first; "" is the empty sequence
pathRelative(from, to) ==
  LET f == Normalize(from)
      t == Normalize(to)
      k == CommonPrefixLen(f, t)
  IN  [i \in 1..(Len(f) - k) |-> ".."] \o SubSeq(t, k + 1, Len(t))

Thrown == [ok |-> FALSE, segs |-> <<>>]
Ok(segs) == [ok |-> TRUE, segs |-> segs]

\* ---------------------------------------------------------------- variables
VARIABLES
  \* the CLI / cron script (scripts/autoRefactorAndPush.js, both revisions)
  cliMode,          \* "basic": the basic revision; "single", "directory": the extended one
  targetFile,       \* the configured target file (flag, environment or default)
  gitWorkdirInput,  \* the configured git working directory ("" when not given)
  gitWorkdir,       \* the directory git runs in
  targetFilePath,   \* the absolute path of the target file
  gitRelativePath,  \* the path handed to git add
  sourceCode,       \* the text read from the target file
  updatedCode,      \* the processed code of the reply
  filesLeft,        \* directory flow: entries of the reply not yet handled
  writtenPaths,     \* directory flow: the paths written so far
  cliPc,            \* the statement the script is at
  cliLog,           \* the side effects so far, in order: <<step, succeeded>>
  gitArgs,          \* every path argument handed to a git subprocess
  fileReads,        \* the locations read
  fileWrites,       \* the locations written or created
  diskContent,      \* the text of the target file on disk once written
  gitHead,          \* "base", or "committed" once git commit succeeded
  gitRemote,        \* "base", or "pushed" once git push succeeded
  diffStatus,       \* the exit status of the diff probe (NoStatus before it ran)
  diffError         \* whether the diff probe's result carried an error

VARIABLES
  \* one call of a provider-backed service
  svcName,          \* the service called
  apiKeyEnv,        \* the provider key of the environment (NotText when unset)
  svcCode,          \* the code submitted (single-file services)
  svcFiles,         \* the files submitted (batch service)
  svcReply,         \* what the provider answers when it is called
  svcOutcome,       \* the result or error of the call (NoOutcome before it)
  providerKeys      \* the key of every call made to the provider

svcVars ==
  <<svcName, apiKeyEnv, svcCode, svcFiles, svcReply, svcOutcome, providerKeys>>

VARIABLES
  \* POST /api/repo/modify (modifyRepoFileHandler, modifyFileWithGrok)
  repoRequest,      \* repoPath and targetFile after the environment fallbacks
  baseRepoPath,     \* the resolved repository path
  relativeFilePath, \* the target file as given (request or environment)
  filePath,         \* path.join(baseRepoPath, relativeFilePath)
  workContent,      \* the text of the target file on disk (NotText: no file)
  headContent,      \* the text of the target file in HEAD (NotText: untracked)
  indexContent,     \* the text of the target file in the index
  otherChanges,     \* other files of the repository: "none", "unstaged", "staged"
  originalCode,     \* the text read from the target file
  statusPreAdd,     \* git.status() before staging
  statusPostAdd,    \* git.status() after staging
  repoPc,           \* the statement the handler is at
  repoLog,          \* filesystem writes and git operations so far: <<step, succeeded>>
  repoResult        \* the response: its kind and HTTP status

repoVars ==
  <<repoRequest, baseRepoPath, relativeFilePath, filePath, workContent, headContent,
    indexContent, otherChanges, originalCode, statusPreAdd, statusPostAdd,
    repoPc, repoLog, repoResult>>

VARIABLES
  \* POST /api/grok/refactor-directory (refactorDirectoryHandler)
  fsKind,            \* what each path of the filesystem holds
  directoryPath,     \* the directoryPath of the request body
  resolvedDirectory, \* what ensurePathWithinProject returned
  calls,             \* the calls of collectJsFiles, by directory
  enumerated,        \* the locations whose entries were listed
  readLocations,     \* the locations whose text was read
  jsFiles,           \* what the outermost collectJsFiles returned
  dirPc,             \* the statement the handler is at
  dirResult          \* the response: its kind and HTTP status

dirVars ==
  <<fsKind, directoryPath, resolvedDirectory, calls, enumerated,
    readLocations, jsFiles, dirPc, dirResult>>

VARIABLES
  \* the provider client cache of the extended Grok service (initClient)
  clientMode,       \* "sequential": a call starts after the previous one returned
  cachedClient,     \* the module-level cachedClient (NoClient when unset)
  clientCalls,      \* the calls of initClient, in the order they start
  clientsBuilt      \* how many clients were constructed

clientVars == <<clientMode, cachedClient, clientCalls, clientsBuilt>>

VARIABLES
  \* POST /api/grok/refactor (refactorCodeHandler)
  refactorField,     \* the code field of the request body
  effectiveFilePath, \* the file-path label handed to the service
  refactorPc,        \* the statement the handler is at
  refactorResult     \* the response: its kind and HTTP status

refactorVars ==
  <<refactorField, effectiveFilePath, refactorPc, refactorResult>>

VARIABLES
  \* the settings of the CLI script (parseCliArgs and the resolution after it)
  argv,             \* process.argv.slice(2): the tokens of the command line
  processEnv,       \* the GROK_* variables of the environment (NotText: unset)
  cliArgs,          \* what parseCliArgs returned (NotText: key not set)
  config,           \* the resolved settings
  argsPc            \* "parse", "resolve" or "done"

argsVars == <<argv, processEnv, cliArgs, config, argsPc>>

VARIABLES
  \* the server process (src/server.js)
  serverState,      \* "listening", "closing" (close called) or "closed"
  openConnections,  \* the connections of the HTTP server that have not ended
  accepted,         \* how many connections were accepted
  rejections,       \* how many unhandled rejections were reported
  closeCallbacks,   \* the callbacks handed to server.close, not yet called
  processState,     \* "running" or "exited"
  exitCode,         \* the code handed to process.exit (NoExit before it)
  exitCause,        \* the guard that called process.exit
  serverLog         \* the guard events in order

serverVars ==
  <<serverState, openConnections, accepted, rejections, closeCallbacks,
    processState, exitCode, exitCause, serverLog>>

VARIABLES
  \* one call of getTimeOfDayFromHour (sample-test.js)
  hourInput,        \* the argument: its kind and, for a number, twice its value
  timeOfDay,        \* what the call returned (NotCalled before it)
  hourPc            \* "call" or "done"

hourVars == <<hourInput, timeOfDay, hourPc>>

VARIABLES
  \* two calls of capitalize in a row (sample-test.js)
  capInput,         \* the string handed to the first call
  capOnce,          \* capitalize(capInput)
  capTwice,         \* capitalize(capitalize(capInput))
  capPc             \* "first", "second" or "done"

capVars == <<capInput, capOnce, capTwice, capPc>>

VARIABLES
  \* the greeting module (sample-test.js)
  greetings,        \* the greetings object: a table per language code
  defaultNames,     \* the default name per language code
  defaultGroups,    \* the default group term per language code
  languagesAdded,   \* how many calls of addLanguage were made
  greetCall,        \* the last call: the function and its arguments
  greetResult       \* what the last call returned or threw

greetVars ==
  <<greetings, defaultNames, defaultGroups, languagesAdded, greetCall,
    greetResult>>

VARIABLES
  \* the startup of the server (server.js, and the modules it loads)
  startEnv,         \* the environment the process was started with
  envFile,          \* the entries of the .env file (NotText: no entry)
  serverEnv,        \* process.env as it is now
  openaiApiKey,     \* the apiKey the OpenAI configuration was built with
  PORT,             \* the constant PORT of server.js
  listeningOn,      \* the port app.listen was called with
  bootPc            \* the statement of server.js that runs next

bootVars ==
  <<startEnv, envFile, serverEnv, openaiApiKey, PORT, listeningOn, bootPc>>

cliVars ==
  <<cliMode, targetFile, gitWorkdirInput, gitWorkdir, targetFilePath,
    gitRelativePath, sourceCode, updatedCode, filesLeft, writtenPaths, cliPc,
    cliLog, gitArgs, fileReads, fileWrites, diskContent, gitHead, gitRemote,
    diffStatus, diffError>>

NonCliVars == <<svcVars, repoVars, dirVars, clientVars, refactorVars, argsVars, serverVars, hourVars, capVars, greetVars, bootVars>>
NonSvcVars == <<cliVars, repoVars, dirVars, clientVars, refactorVars, argsVars, serverVars, hourVars, capVars, greetVars, bootVars>>
NonRepoVars == <<cliVars, dirVars, clientVars, refactorVars, argsVars, serverVars, hourVars, capVars, greetVars, bootVars>>
NonDirVars == <<cliVars, repoVars, clientVars, refactorVars, argsVars, serverVars, hourVars, capVars, greetVars, bootVars>>

NonClientVars == <<cliVars, svcVars, repoVars, dirVars, refactorVars, argsVars, serverVars, hourVars, capVars, greetVars, bootVars>>

NonRefactorVars == <<cliVars, repoVars, dirVars, clientVars, argsVars, serverVars, hourVars, capVars, greetVars, bootVars>>

NonArgsVars == <<cliVars, svcVars, repoVars, dirVars, clientVars, refactorVars, serverVars, hourVars, capVars, greetVars, bootVars>>

NonServerVars == <<cliVars, svcVars, repoVars, dirVars, clientVars, refactorVars, argsVars, hourVars, capVars, greetVars, bootVars>>

NonHourVars == <<cliVars, svcVars, repoVars, dirVars, clientVars, refactorVars, argsVars, serverVars, capVars, greetVars, bootVars>>

NonCapVars == <<cliVars, svcVars, repoVars, dirVars, clientVars, refactorVars, argsVars, serverVars, hourVars, greetVars, bootVars>>

NonGreetVars == <<cliVars, svcVars, repoVars, dirVars, clientVars, refactorVars, argsVars, serverVars, hourVars, capVars, bootVars>>

NonBootVars == <<cliVars, svcVars, repoVars, dirVars, clientVars, refactorVars, argsVars, serverVars, hourVars, capVars, greetVars>>

vars == <<cliVars, svcVars, repoVars, dirVars, clientVars, refactorVars, argsVars, serverVars, hourVars, capVars, greetVars, bootVars>>

\* ------------------------------------------------------ the CLI / cron script
\* "sample-test.js", the built-in default target
DefaultTargetFile == [abs |-> FALSE, segs |-> <<"f">>]

\* the file entries the directory endpoint may return: a path and whether its
\* code is text; the empty path stands for an entry with no path
EntryPaths ==
  { EmptyPath,
    [abs |-> FALSE, segs |-> <<"f">>],
    [abs |-> FALSE, segs |-> <<"sub", "f">>],
    [abs |-> FALSE, segs |-> <<"..", "f">>],
    [abs |-> TRUE, segs |-> <<"repo", "f">>],
    [abs |-> TRUE, segs |-> <<"repo", "..", "f">>],
    [abs |-> TRUE, segs |-> <<"f">>] }

\* what --git-workdir or GROK_GIT_WORKDIR may give ("" when not given)
GitWorkdirArgs ==
  { EmptyPath,
    [abs |-> FALSE, segs |-> <<"sub">>],
    [abs |-> FALSE, segs |-> <<"..">>],
    [abs |-> FALSE, segs |-> <<"sub", "..">>],
    [abs |-> TRUE, segs |-> <<"repo">>],
    [abs |-> TRUE, segs |-> <<"repo", "sub">>],
    [abs |-> TRUE, segs |-> <<"repo", "..">>],
    [abs |-> TRUE, segs |-> <<"sub">>] }

\* spawnSync's result: status (-1 for null) and whether error is set
ExitStatuses == {-1, 0, 1, 2, 128}
NoStatus == -2

resolvePathInRepo(inputPath) ==
  LET candidate == IF inputPath.abs THEN inputPath.segs
                   ELSE pathResolve(repoRoot, inputPath)
  IN  IF ~StartsWithDir(candidate, repoRoot) /\ candidate # repoRoot
      THEN Thrown
      ELSE Ok(candidate)

\* the checks of relativeToGitWorkdir with every guard removed
relativeToGitWorkdirUnchecked(inputPath) ==
  LET absolutePath == IF inputPath.abs THEN Normalize(inputPath.segs)
                      ELSE pathResolve(repoRoot, inputPath)
  IN  Ok(pathRelative(gitWorkdir, absolutePath))

relativeToGitWorkdir(inputPath) ==
  LET absolutePath == IF inputPath.abs THEN Ok(Normalize(inputPath.segs))
                      ELSE resolvePathInRepo(inputPath)
      normalizedPath == Normalize(absolutePath.segs)
  IN  IF ~absolutePath.ok THEN Thrown
      ELSE IF normalizedPath = gitWorkdir
              \/ StartsWithDir(normalizedPath, gitWorkdir)
      THEN LET rel == pathRelative(gitWorkdir, normalizedPath)
           IN  Ok(IF rel = <<>> THEN <<".">> ELSE rel)
      ELSE Thrown

AbsPath(segs) == [abs |-> TRUE, segs |-> segs]

\* prepareGitTargets: every target made relative to the git working
\* directory; it throws when one of them does
prepareGitTargets(targets) ==
  IF \E t \in targets : ~relativeToGitWorkdir(AbsPath(t)).ok
  THEN [ok |-> FALSE, paths |-> {}]
  ELSE [ok |-> TRUE,
        paths |-> {relativeToGitWorkdir(AbsPath(t)).segs : t \in targets}]

\* hasGitDiff as if every exit code but 0 meant "has diff"
hasGitDiffLoose(status, error) ==
  IF status = 0 THEN "false" ELSE "true"

\* hasGitDiff after the subprocess returned: "false", "true" or "throw"
hasGitDiff(status, error) ==
  IF status = 0 THEN "false"
  ELSE IF status = 1 THEN "true"
  ELSE IF status = 128 /\ ~error THEN "true"
  ELSE "throw"

\* the location a path argument of a git subprocess names
GitArgLocation(arg) == Normalize(Normalize(gitWorkdir) \o arg)

uniquePaths == {Normalize(p) : p \in writtenPaths}

CliInit ==
  /\ cliMode \in {"basic", "single", "directory"}
  /\ targetFile \in IF cliMode = "directory" THEN {DefaultTargetFile}
                    ELSE PathArgs \ {EmptyPath}
  /\ gitWorkdirInput \in IF cliMode = "basic" THEN {EmptyPath}
                         ELSE GitWorkdirArgs
  /\ gitWorkdir = repoRoot
  /\ targetFilePath = <<>>
  /\ gitRelativePath = <<>>
  /\ sourceCode = NotText
  /\ updatedCode = NotText
  /\ filesLeft = 0
  /\ writtenPaths = {}
  /\ cliPc = "load"
  /\ cliLog = <<>>
  /\ gitArgs = {}
  /\ fileReads = {}
  /\ fileWrites = {}
  /\ diskContent = NotText
  /\ gitHead = "base"
  /\ gitRemote = "base"
  /\ diffStatus = NoStatus
  /\ diffError = FALSE

\* no script runs
CliIdle ==
  /\ cliMode = "none"
  /\ targetFile = EmptyPath
  /\ gitWorkdirInput = EmptyPath
  /\ gitWorkdir = repoRoot
  /\ targetFilePath = <<>>
  /\ gitRelativePath = <<>>
  /\ sourceCode = NotText
  /\ updatedCode = NotText
  /\ filesLeft = 0
  /\ writtenPaths = {}
  /\ cliPc = "idle"
  /\ cliLog = <<>>
  /\ gitArgs = {}
  /\ fileReads = {}
  /\ fileWrites = {}
  /\ diskContent = NotText
  /\ gitHead = "base"
  /\ gitRemote = "base"
  /\ diffStatus = NoStatus
  /\ diffError = FALSE

\* the module-level constants: gitWorkdir (extended), targetFilePath (basic)
CliLoad ==
  /\ cliPc = "load"
  /\ UNCHANGED NonCliVars
  /\ IF cliMode = "basic"
     THEN /\ targetFilePath' = IF targetFile.abs THEN targetFile.segs
                               ELSE pathResolve(repoRoot, targetFile)
          /\ cliPc' = "resolve"
          /\ UNCHANGED gitWorkdir
     ELSE LET resolved == IF gitWorkdirInput = EmptyPath THEN Ok(repoRoot)
                          ELSE resolvePathInRepo(gitWorkdirInput)
          IN  /\ gitWorkdir' = IF resolved.ok THEN resolved.segs ELSE gitWorkdir
              /\ cliPc' = IF resolved.ok THEN "resolve" ELSE "exit1"
              /\ UNCHANGED targetFilePath
  /\ UNCHANGED <<cliMode, targetFile, gitWorkdirInput, gitRelativePath,
                 sourceCode, updatedCode, filesLeft, writtenPaths, cliLog,
                 gitArgs, fileReads, fileWrites, diskContent, gitHead,
                 gitRemote,
                 diffStatus, diffError>>

\* the path computations that open each flow
CliResolve ==
  /\ cliPc = "resolve"
  /\ UNCHANGED NonCliVars
  /\ IF cliMode = "basic"
     THEN /\ gitRelativePath' = pathRelative(repoRoot, targetFilePath)
          /\ cliPc' = "read"
          /\ UNCHANGED targetFilePath
     ELSE IF cliMode = "single"
     THEN LET resolved == resolvePathInRepo(targetFile)
              relative == relativeToGitWorkdir(AbsPath(resolved.segs))
          IN  IF resolved.ok /\ relative.ok
              THEN /\ targetFilePath' = resolved.segs
                   /\ gitRelativePath' = relative.segs
                   /\ cliPc' = "read"
              ELSE /\ cliPc' = "exit1"
                   /\ UNCHANGED <<targetFilePath, gitRelativePath>>
     ELSE \E targetDirectory \in PathArgs \ {EmptyPath} :
            /\ cliPc' = IF resolvePathInRepo(targetDirectory).ok
                        THEN "call" ELSE "exit1"
            /\ UNCHANGED <<targetFilePath, gitRelativePath>>
  /\ UNCHANGED <<cliMode, targetFile, gitWorkdirInput, gitWorkdir, sourceCode,
                 updatedCode, filesLeft, writtenPaths, cliLog, gitArgs,
                 fileReads, fileWrites, diskContent, gitHead, gitRemote,
                 diffStatus, diffError>>

\* fs.readFile(targetFilePath): the text of the file, or a failure
CliRead ==
  /\ cliPc = "read"
  /\ UNCHANGED NonCliVars
  /\ fileReads' = fileReads \cup {Normalize(targetFilePath)}
  /\ \E found \in BOOLEAN, text \in Texts :
       /\ cliLog' = Append(cliLog, <<"read", found>>)
       /\ sourceCode' = IF found THEN text ELSE sourceCode
       /\ cliPc' = IF found THEN "call" ELSE "exit1"
  /\ UNCHANGED <<cliMode, targetFile, gitWorkdirInput, gitWorkdir,
                 targetFilePath, gitRelativePath, updatedCode, filesLeft,
                 writtenPaths, gitArgs, fileWrites, diskContent, gitHead,
                 gitRemote,
                 diffStatus, diffError>>

\* the checks of the processed code with no trimming in the emptiness test
ProcessedCodeOutcomeUntrimmed(processedCode, source) ==
  IF processedCode = NotText \/ Len(processedCode) = 0 THEN "exit1"
  ELSE IF processedCode = source THEN "exit0" ELSE "write"

\* the checks of payload.data.processedCode: not a string or blank throws,
\* equal to the source ends the run, anything else goes on to the write
ProcessedCodeOutcome(processedCode, source) ==
  IF processedCode = NotText \/ Len(Trim(processedCode)) = 0 THEN "exit1"
  ELSE IF processedCode = source THEN "exit0" ELSE "write"

\* the HTTP call and the checks of its reply
CliCall ==
  /\ cliPc = "call"
  /\ UNCHANGED NonCliVars
  /\ \E responseOk \in BOOLEAN :
       /\ cliLog' = Append(cliLog, <<"http", responseOk>>)
       /\ IF ~responseOk
          THEN /\ cliPc' = "exit1"
               /\ UNCHANGED <<updatedCode, filesLeft>>
          ELSE IF cliMode = "directory"
          THEN \E n \in 0..MaxFiles :
                 /\ filesLeft' = n
                 /\ cliPc' = IF n = 0 THEN "exit0" ELSE "write"
                 /\ UNCHANGED updatedCode
          ELSE \E processedCode \in Texts \cup {NotText} :
                 /\ updatedCode' = processedCode
                 /\ cliPc' = ProcessedCodeOutcome(processedCode, sourceCode)
                 /\ UNCHANGED filesLeft
  /\ UNCHANGED <<cliMode, targetFile, gitWorkdirInput, gitWorkdir,
                 targetFilePath, gitRelativePath, sourceCode, writtenPaths,
                 gitArgs, fileReads, fileWrites, diskContent, gitHead,
                 gitRemote,
                 diffStatus, diffError>>

\* fs.writeFile(targetFilePath, updatedCode) of the single-file flows
CliWrite ==
  /\ cliPc = "write"
  /\ UNCHANGED NonCliVars
  /\ cliMode # "directory"
  /\ \E written \in BOOLEAN :
       /\ cliLog' = Append(cliLog, <<"write", written>>)
       /\ diskContent' = IF written THEN updatedCode ELSE diskContent
       /\ fileWrites' = IF written
                        THEN fileWrites \cup {Normalize(targetFilePath)}
                        ELSE fileWrites
       /\ cliPc' = IF written THEN "diff" ELSE "exit1"
  /\ UNCHANGED <<cliMode, targetFile, gitWorkdirInput, gitWorkdir,
                 targetFilePath, gitRelativePath, sourceCode, updatedCode,
                 filesLeft, writtenPaths, gitArgs, fileReads, gitHead,
                 gitRemote,
                 diffStatus, diffError>>

\* path.dirname of an absolute path string
pathDirname(segs) ==
  IF segs = <<>> THEN <<>> ELSE SubSeq(segs, 1, Len(segs) - 1)

\* one turn of the directory flow's loop: an entry without a path or without
\* text is skipped, any other goes to ensureWritableFile, which resolves the
\* path, creates the parent directory and writes the file
CliWriteEntry ==
  /\ cliPc = "write"
  /\ UNCHANGED NonCliVars
  /\ cliMode = "directory"
  /\ filesLeft > 0
  /\ \E path \in EntryPaths, codeIsText \in BOOLEAN,
        outcome \in {"mkdirFailed", "writeFailed", "written"} :
       LET absolutePath == resolvePathInRepo(path)
           parent == Normalize(pathDirname(absolutePath.segs))
       IN  IF path = EmptyPath \/ ~codeIsText
           THEN /\ filesLeft' = filesLeft - 1
                /\ UNCHANGED <<writtenPaths, fileWrites, cliLog, cliPc>>
           ELSE IF ~absolutePath.ok
           THEN /\ cliPc' = "exit1"
                /\ UNCHANGED <<writtenPaths, fileWrites, cliLog, filesLeft>>
           ELSE /\ cliLog' = Append(cliLog, <<"write", outcome = "written">>)
                /\ fileWrites' =
                     IF outcome = "written"
                     THEN fileWrites
                            \cup {parent, Normalize(absolutePath.segs)}
                     ELSE IF outcome = "writeFailed"
                     THEN fileWrites \cup {parent}
                     ELSE fileWrites
                /\ writtenPaths' = IF outcome = "written"
                                   THEN writtenPaths \cup {absolutePath.segs}
                                   ELSE writtenPaths
                /\ filesLeft' = IF outcome = "written" THEN filesLeft - 1
                                ELSE filesLeft
                /\ cliPc' = IF outcome = "written" THEN "write" ELSE "exit1"
  /\ UNCHANGED <<cliMode, targetFile, gitWorkdirInput, gitWorkdir,
                 targetFilePath, gitRelativePath, sourceCode, updatedCode,
                 gitArgs, fileReads, diskContent, gitHead, gitRemote,
                 diffStatus, diffError>>

\* the end of the loop: nothing written ends the run
CliWriteDone ==
  /\ cliPc = "write"
  /\ UNCHANGED NonCliVars
  /\ cliMode = "directory"
  /\ filesLeft = 0
  /\ cliPc' = IF uniquePaths = {} THEN "exit0" ELSE "diff"
  /\ UNCHANGED <<cliMode, targetFile, gitWorkdirInput, gitWorkdir,
                 targetFilePath, gitRelativePath, sourceCode, updatedCode,
                 filesLeft, writtenPaths, cliLog, gitArgs, fileReads,
                 fileWrites, diskContent, gitHead, gitRemote,
                 diffStatus, diffError>>

\* the targets of the diff probe and of git add
DiffTargets ==
  IF cliMode = "basic" THEN [ok |-> TRUE, paths |-> {gitRelativePath}]
  ELSE IF cliMode = "single" THEN prepareGitTargets({targetFilePath})
  ELSE prepareGitTargets(uniquePaths)

\* hasGitDiff: git diff --quiet --exit-code HEAD -- <targets>
CliDiff ==
  /\ cliPc = "diff"
  /\ UNCHANGED NonCliVars
  /\ IF ~DiffTargets.ok
     THEN /\ cliPc' = "exit1"
          /\ UNCHANGED <<cliLog, gitArgs, diffStatus, diffError>>
     ELSE \E status \in ExitStatuses, error \in BOOLEAN :
            LET probe == hasGitDiff(status, error)
            IN  /\ gitArgs' = gitArgs \cup DiffTargets.paths
                /\ diffStatus' = status
                /\ diffError' = error
                /\ cliLog' = Append(cliLog, <<"diff", probe = "true">>)
                /\ cliPc' = IF probe = "true" THEN "add"
                            ELSE IF probe = "false" THEN "exit0"
                            ELSE "exit1"
  /\ UNCHANGED <<cliMode, targetFile, gitWorkdirInput, gitWorkdir,
                 targetFilePath, gitRelativePath, sourceCode, updatedCode,
                 filesLeft, writtenPaths, fileReads, fileWrites, diskContent,
                 gitHead, gitRemote>>

\* runGit: the subprocess ran and its status was 0, or runGit throws
CliAdd ==
  /\ cliPc = "add"
  /\ UNCHANGED NonCliVars
  /\ \E succeeded \in BOOLEAN :
       /\ gitArgs' = gitArgs \cup
            (IF cliMode = "directory" THEN DiffTargets.paths
             ELSE {gitRelativePath})
       /\ cliLog' = Append(cliLog, <<"add", succeeded>>)
       /\ cliPc' = IF succeeded THEN "commit" ELSE "exit1"
  /\ UNCHANGED <<cliMode, targetFile, gitWorkdirInput, gitWorkdir,
                 targetFilePath, gitRelativePath, sourceCode, updatedCode,
                 filesLeft, writtenPaths, fileReads, fileWrites, diskContent,
                 gitHead, gitRemote,
                 diffStatus, diffError>>

CliCommit ==
  /\ cliPc = "commit"
  /\ UNCHANGED NonCliVars
  /\ \E succeeded \in BOOLEAN :
       /\ cliLog' = Append(cliLog, <<"commit", succeeded>>)
       /\ gitHead' = IF succeeded THEN "committed" ELSE gitHead
       /\ cliPc' = IF succeeded THEN "push" ELSE "exit1"
  /\ UNCHANGED <<cliMode, targetFile, gitWorkdirInput, gitWorkdir,
                 targetFilePath, gitRelativePath, sourceCode, updatedCode,
                 filesLeft, writtenPaths, gitArgs, fileReads, fileWrites,
                 diskContent, gitRemote,
                 diffStatus, diffError>>

\* a failed push as one that also took the local commit back
CliPushUndoing ==
  /\ cliPc = "push"
  /\ UNCHANGED NonCliVars
  /\ \E succeeded \in BOOLEAN :
       /\ cliLog' = Append(cliLog, <<"push", succeeded>>)
       /\ gitRemote' = IF succeeded THEN "pushed" ELSE gitRemote
       /\ gitHead' = IF succeeded THEN gitHead ELSE "base"
       /\ cliPc' = IF succeeded THEN "finish" ELSE "exit1"
  /\ UNCHANGED <<cliMode, targetFile, gitWorkdirInput, gitWorkdir,
                 targetFilePath, gitRelativePath, sourceCode, updatedCode,
                 filesLeft, writtenPaths, gitArgs, fileReads, fileWrites,
                 diskContent,
                 diffStatus, diffError>>

CliPush ==
  /\ cliPc = "push"
  /\ UNCHANGED NonCliVars
  /\ \E succeeded \in BOOLEAN :
       /\ cliLog' = Append(cliLog, <<"push", succeeded>>)
       /\ gitRemote' = IF succeeded THEN "pushed" ELSE gitRemote
       /\ cliPc' = IF succeeded THEN "finish" ELSE "exit1"
  /\ UNCHANGED <<cliMode, targetFile, gitWorkdirInput, gitWorkdir,
                 targetFilePath, gitRelativePath, sourceCode, updatedCode,
                 filesLeft, writtenPaths, gitArgs, fileReads, fileWrites,
                 diskContent, gitHead,
                 diffStatus, diffError>>

\* the closing console.log: the extended single-file flow names
\* relativePathForGit, which that revision does not define
CliFinish ==
  /\ cliPc = "finish"
  /\ UNCHANGED NonCliVars
  /\ cliPc' = IF cliMode = "single" THEN "exit1" ELSE "exit0"
  /\ UNCHANGED <<cliMode, targetFile, gitWorkdirInput, gitWorkdir,
                 targetFilePath, gitRelativePath, sourceCode, updatedCode,
                 filesLeft, writtenPaths, cliLog, gitArgs, fileReads,
                 fileWrites, diskContent, gitHead, gitRemote,
                 diffStatus, diffError>>

CliNext ==
  \/ CliLoad
  \/ CliResolve
  \/ CliRead
  \/ CliCall
  \/ CliWrite
  \/ CliWriteEntry
  \/ CliWriteDone
  \/ CliDiff
  \/ CliAdd
  \/ CliCommit
  \/ CliPush
  \/ CliFinish


\* ----------------------------------------------------- claims about the CLI
\* the steps of the log that act on the working copy, in the order they ran
EffectSteps == SelectSeq(cliLog, LAMBDA e : e[1] \notin {"read", "http"})

StepRank(step) ==
  CASE step = "write" -> 1
    [] step = "diff" -> 2
    [] step = "add" -> 3
    [] step = "commit" -> 4
    [] step = "push" -> 5

Ran(step) == \E i \in 1..Len(cliLog) : cliLog[i][1] = step
Succeeded(step) == \E i \in 1..Len(cliLog) : cliLog[i] = <<step, TRUE>>

\* C3: within one CLI run the steps write, diff probe, git add, git commit,
\* git push run in that order, each only after every earlier one succeeded
\* (the directory flow repeats the write, once per file); a failed step ends
\* the run, and what earlier steps did stays: the written text, the local
\* commit and the pushed commit are still there whatever happens later.
C3_StepsInOrderNoRollback ==
  /\ \A i \in 1..Len(EffectSteps) :
       /\ i = 1 => EffectSteps[i][1] = "write"
       /\ i > 1 =>
            \/ StepRank(EffectSteps[i][1]) = StepRank(EffectSteps[i - 1][1]) + 1
            \/ /\ cliMode = "directory"
               /\ EffectSteps[i][1] = "write"
               /\ EffectSteps[i - 1][1] = "write"
       /\ i < Len(EffectSteps) => EffectSteps[i][2]
  /\ (Len(EffectSteps) > 0 /\ ~EffectSteps[Len(EffectSteps)][2])
       => cliPc \in {"exit0", "exit1"}
  /\ (Succeeded("write") /\ cliMode # "directory")
       => /\ diskContent = updatedCode
          /\ Normalize(targetFilePath) \in fileWrites
  /\ (cliMode = "directory")
       => {Normalize(p) : p \in writtenPaths} \subseteq fileWrites
  /\ Succeeded("commit") => gitHead = "committed"
  /\ Succeeded("push") => gitRemote = "pushed"

\* C3 witness: the push failed after the write and the commit, which remain
C3_Witness ==
  /\ cliLog # <<>>
  /\ cliLog[Len(cliLog)] = <<"push", FALSE>>
  /\ cliPc = "exit1"
  /\ gitHead = "committed"
  /\ diskContent = updatedCode

HasDiffOutcome ==
  diffStatus = 1 \/ (diffStatus = 128 /\ ~diffError)

\* C4: the diff probe answers "no diff" on exit code 0, "has diff" on exit
\* code 1 and on exit code 128 without an error, and throws on anything else;
\* git add, commit and push run only after a "has diff" answer, and a
\* "no diff" answer ends the run with none of them.
C4_DiffProbeGatesGit ==
  /\ diffStatus # NoStatus =>
       /\ diffStatus = 0 =>
            cliPc = "exit0" /\ ~Ran("add") /\ ~Ran("commit") /\ ~Ran("push")
       /\ HasDiffOutcome => Succeeded("diff") /\ cliPc # "diff"
       /\ (diffStatus # 0 /\ ~HasDiffOutcome) =>
            cliPc = "exit1" /\ ~Ran("add") /\ ~Ran("commit") /\ ~Ran("push")
  /\ (Ran("add") \/ Ran("commit") \/ Ran("push")) => HasDiffOutcome
  /\ cliPc \in {"add", "commit", "push", "finish"} => HasDiffOutcome

\* C4 witness: exit code 128 with no error was taken as "has diff" and git
\* add ran
C4_Witness ==
  /\ diffStatus = 128
  /\ ~diffError
  /\ Ran("add")

\* C4, second witness state: the probe said "no diff" and the run ended
C4_WitnessNoDiff ==
  /\ diffStatus = 0
  /\ cliPc = "exit0"

OutsideRepoRoot(path) == ~Inside(pathResolve(repoRoot, path), repoRoot)

\* C5: in the extended single-file flow a --file value that resolves outside
\* the repository root makes the run throw before the target file is read
\* and before any HTTP request is issued.
C5_OutsideFileThrowsBeforeIO ==
  (cliMode = "single" /\ OutsideRepoRoot(targetFile))
    => /\ ~Ran("read")
       /\ ~Ran("http")
       /\ fileReads = {}
       /\ cliPc \in {"load", "resolve", "exit1"}

\* C5 witness: an absolute --file value that starts with the repository root
\* and leaves it through "..", with the default git working directory: the
\* run has thrown
C5_Witness ==
  /\ cliMode = "single"
  /\ targetFile = [abs |-> TRUE, segs |-> <<"repo", "..">>]
  /\ gitWorkdirInput = EmptyPath
  /\ cliPc = "exit1"

\* the single-file run got a response from the endpoint
GotResponse ==
  /\ cliMode \in {"basic", "single"}
  /\ \E i \in 1..Len(cliLog) : cliLog[i] = <<"http", TRUE>>

\* the target file was not written and no git subprocess was started
NothingWrittenNoGit ==
  /\ fileWrites = {}
  /\ diskContent = NotText
  /\ gitArgs = {}
  /\ \A i \in 1..Len(cliLog) : cliLog[i][1] \in {"read", "http"}

\* C16: in the single-file flow a processed code that is missing, not text
\* or blank makes the run throw, and one identical to the source ends the
\* run without a commit; in both cases the target file is not written and no
\* git subprocess is started.
C16_UnusableOrIdenticalCodeNoEffects ==
  GotResponse =>
    /\ (updatedCode = NotText \/ Trim(updatedCode) = <<>>)
         => cliPc = "exit1" /\ NothingWrittenNoGit
    /\ (updatedCode # NotText /\ Trim(updatedCode) # <<>>
          /\ updatedCode = sourceCode)
         => cliPc = "exit0" /\ NothingWrittenNoGit

\* C16 witness: the processed code equals the source, which has a blank at
\* its end, and the run ended without a commit
C16_Witness ==
  /\ GotResponse
  /\ updatedCode = <<"a", " ">>
  /\ updatedCode = sourceCode
  /\ cliPc = "exit0"

\* C16 second case reached: the processed code is blank and the run threw
C16_WitnessBlank ==
  /\ GotResponse
  /\ updatedCode = <<" ">>
  /\ cliPc = "exit1"

\* C6: every path argument handed to a git subprocess (the diff probe and
\* git add) names a location inside the git working directory.
C6_GitArgsInsideWorkdir ==
  \A arg \in gitArgs : Inside(GitArgLocation(arg), Normalize(gitWorkdir))

\* C6 for the extended revision alone, which validates its git targets
C6_ExtendedGitArgsInsideWorkdir ==
  cliMode # "basic" => C6_GitArgsInsideWorkdir

\* ------------------------------------------------- provider-backed services
\* the token that stands for a Markdown code fence with its line break
Fence == "fence"

\* what the provider may send as content: text with or without fences
ReplyTexts == SeqsUpTo(Chars \cup {Fence}, MaxReplyLen)

\* the positions of the fences of a text, in order
FencePositions(content) == {i \in 1..Len(content) : content[i] = Fence}

Min(S) == CHOOSE x \in S : \A y \in S : x <= y

\* the code block pattern of content.match: the text between the first
\* fence and the next one, trimmed; without such a pair, the whole content
\* trimmed
ExtractCode(content) ==
  LET fences == FencePositions(content)
  IN  IF Cardinality(fences) >= 2
      THEN LET first == Min(fences)
               second == Min(fences \ {first})
           IN  Trim(SubSeq(content, first + 1, second - 1))
      ELSE Trim(content)

\* extractTextFromResponse for text or nothing
extractTextFromResponse(data) == IF Falsy(data) THEN <<>> ELSE data

\* what a call of the provider ends in: a failure without a response
\* (status 0: timeout, network error), an error response, or content
ProviderReplies ==
  {[kind |-> "error", status |-> st, text |-> NotText] :
     st \in {0, 401, 499, 500, 503}}
    \cup {[kind |-> "content", status |-> 200, text |-> t] :
            t \in ReplyTexts \cup {NotText}}

Failed(called, status, message) ==
  [called |-> called, status |-> status, message |-> message,
   code |-> NotText, files |-> <<>>]

Returned(code) ==
  [called |-> TRUE, status |-> 200, message |-> "", code |-> code,
   files |-> <<>>]

ReturnedFiles(files) ==
  [called |-> TRUE, status |-> 200, message |-> "", code |-> NotText,
   files |-> files]

NoOutcome == Failed(FALSE, 0, "pending")

\* codeService.processCode: the client is built from OPENAI_API_KEY when the
\* module loads, and the call is made whatever the key is
processCode(apiKey, code, reply) ==
  IF reply.kind = "error" \/ Falsy(reply.text)
  THEN Failed(TRUE, 500, "Failed to process code with AI service")
  ELSE Returned(ExtractCode(reply.text))

\* the basic Grok service as if its catch block relayed no status
requestCodeModificationBasicMasking(apiKey, code, reply) ==
  IF Falsy(apiKey)
  THEN Failed(FALSE, 500, "GROK_API_KEY is not set in environment variables")
  ELSE IF Falsy(code)
  THEN Failed(FALSE, 400, "Source code is required for Grok processing")
  ELSE IF reply.kind = "error" \/ Falsy(reply.text)
  THEN Failed(TRUE, 502, "Failed to contact Grok AI service")
  ELSE Returned(ExtractCode(reply.text))

\* the basic Grok service (direct HTTP call)
requestCodeModificationBasic(apiKey, code, reply) ==
  IF Falsy(apiKey)
  THEN Failed(FALSE, 500, "GROK_API_KEY is not set in environment variables")
  ELSE IF Falsy(code)
  THEN Failed(FALSE, 400, "Source code is required for Grok processing")
  ELSE IF reply.kind = "error" /\ reply.status # 0 /\ reply.status < 500
  THEN Failed(TRUE, reply.status, "Grok API error: detail")
  ELSE IF reply.kind = "error" \/ Falsy(reply.text)
  THEN Failed(TRUE, 502, "Failed to contact Grok AI service")
  ELSE Returned(ExtractCode(reply.text))

\* the key the extended services use: GROK_API_KEY trimmed
TrimmedKey(rawApiKey) == IF Falsy(rawApiKey) THEN NotText ELSE Trim(rawApiKey)

\* the extended Grok service (SDK client): every failure inside the try
\* block, its own 502 included, leaves as the catch block's 502
requestCodeModification(rawApiKey, code, reply) ==
  IF Falsy(TrimmedKey(rawApiKey))
  THEN Failed(FALSE, 500, "GROK_API_KEY is not set in environment variables")
  ELSE IF Falsy(code)
  THEN Failed(FALSE, 400, "Source code is required for Grok processing")
  ELSE IF reply.kind = "error" \/ Falsy(extractTextFromResponse(reply.text))
  THEN Failed(TRUE, 502, "Failed to contact Grok AI service")
  ELSE Returned(ExtractCode(extractTextFromResponse(reply.text)))

\* ------------------------------------------------------- the batch service
\* the files a caller may submit: a path and its code
FileEntries ==
  {[path |-> p, code |-> <<"a">>] : p \in {<<"a">>, <<"a", "a">>, <<"a", " ">>}}

\* one match of the FILE: pattern in a reply: the captured path and the
\* captured code, as captured (before trimming)
RawBlocks ==
  {[path |-> p, code |-> c] :
     p \in {<<"a">>, <<" ", "a">>, <<"a", "a">>},
     c \in {<<" ">>, <<"a", "a">>, <<" ", "a">>}}

\* what the provider answers to a batch call: a failure, no content, or
\* content holding the given FILE blocks in order (possibly none)
BatchReplies ==
  {[kind |-> "error", status |-> st, text |-> NotText, blocks |-> <<>>] :
     st \in {0, 500}}
    \cup {[kind |-> "content", status |-> 200, text |-> t, blocks |-> <<>>] :
            t \in {NotText, <<>>}}
    \cup {[kind |-> "content", status |-> 200, text |-> <<"a">>,
           blocks |-> b] : b \in SeqsUpTo(RawBlocks, MaxBlocks)}

\* parseBatchResponse that keeps the captured code untrimmed
parseBatchResponseUntrimmed(blocks) ==
  LET trimmed == [i \in 1..Len(blocks) |->
                    [path |-> Trim(blocks[i].path), code |-> blocks[i].code]]
  IN  SelectSeq(trimmed, LAMBDA b : b.path # <<>> /\ Trim(b.code) # <<>>)

\* parseBatchResponse: each match trimmed, kept when both parts are non-empty
parseBatchResponse(blocks) ==
  LET trimmed == [i \in 1..Len(blocks) |->
                    [path |-> Trim(blocks[i].path),
                     code |-> Trim(blocks[i].code)]]
  IN  SelectSeq(trimmed, LAMBDA b : b.path # <<>> /\ b.code # <<>>)

\* incomingMap.get(path): a Map built from the parsed blocks keeps, for a
\* path given twice, the later code
incomingMapGet(parsedFiles, path) ==
  LET hits == {i \in 1..Len(parsedFiles) : parsedFiles[i].path = path}
  IN  IF hits = {} THEN NotText
      ELSE parsedFiles[CHOOSE i \in hits : \A j \in hits : j <= i].code

requestProjectModification(rawApiKey, files, reply) ==
  IF files = <<>>
  THEN Failed(FALSE, 400, "At least one file is required for batch refactoring")
  ELSE IF Falsy(TrimmedKey(rawApiKey))
  THEN Failed(FALSE, 500, "GROK_API_KEY is not set in environment variables")
  ELSE IF reply.kind = "error" \/ Falsy(extractTextFromResponse(reply.text))
  THEN Failed(TRUE, 502, "Failed to contact Grok AI service")
  ELSE LET parsedFiles == parseBatchResponse(reply.blocks)
       IN  IF Len(parsedFiles) = 0
           THEN Failed(TRUE, 502, "Failed to contact Grok AI service")
           ELSE ReturnedFiles(
                  [i \in 1..Len(files) |->
                     LET incoming ==
                           incomingMapGet(parsedFiles, Trim(files[i].path))
                     IN  [path |-> files[i].path,
                          code |-> IF Falsy(incoming) THEN files[i].code
                                   ELSE incoming]])

\* processCodeHandler with no test of the code field
processCodeHandlerUnchecked(apiKey, code, reply) ==
  processCode(apiKey, code, reply)

\* processCodeHandler: the code field of the body is tested, then the
\* generic service is called; the outcome is what the client is answered
processCodeHandler(apiKey, code, reply) ==
  IF Falsy(code)
  THEN Failed(FALSE, 400, "Please provide the code to process")
  ELSE processCode(apiKey, code, reply)

\* ------------------------------------------------ one call of each service
KeyValues == {NotText, <<>>, <<" ">>, <<"a">>}

SvcInit ==
  /\ svcName \in {"processCode", "processCodeHandler", "grokBasic",
                  "grokExtended", "batch"}
  /\ apiKeyEnv \in KeyValues
  /\ svcCode \in IF svcName = "batch" THEN {NotText}
                 ELSE Texts \cup {NotText}
  /\ svcFiles \in IF svcName = "batch"
                  THEN SeqsUpTo(FileEntries, MaxBatchFiles) ELSE {<<>>}
  /\ svcReply \in IF svcName = "batch" THEN BatchReplies ELSE ProviderReplies
  /\ svcOutcome = NoOutcome
  /\ providerKeys = {}

SvcIdle ==
  /\ svcName = "none"
  /\ apiKeyEnv = NotText
  /\ svcCode = NotText
  /\ svcFiles = <<>>
  /\ svcReply = NotText
  /\ svcOutcome = NoOutcome
  /\ providerKeys = {}

\* the call ends in outcome; a call that reached the provider used key
SvcEnds(outcome, key) ==
  /\ svcOutcome = NoOutcome
  /\ svcOutcome' = outcome
  /\ providerKeys' = IF outcome.called THEN providerKeys \cup {key}
                     ELSE providerKeys
  /\ UNCHANGED <<svcName, apiKeyEnv, svcCode, svcFiles, svcReply>>
  /\ UNCHANGED NonSvcVars

CallProcessCode ==
  /\ svcName = "processCode"
  /\ SvcEnds(processCode(apiKeyEnv, svcCode, svcReply), apiKeyEnv)

\* POST /api/code/process
CallProcessCodeHandler ==
  /\ svcName = "processCodeHandler"
  /\ SvcEnds(processCodeHandler(apiKeyEnv, svcCode, svcReply), apiKeyEnv)

CallGrokBasic ==
  /\ svcName = "grokBasic"
  /\ SvcEnds(requestCodeModificationBasic(apiKeyEnv, svcCode, svcReply),
             apiKeyEnv)

CallGrokExtended ==
  /\ svcName = "grokExtended"
  /\ SvcEnds(requestCodeModification(apiKeyEnv, svcCode, svcReply),
             TrimmedKey(apiKeyEnv))

CallBatch ==
  /\ svcName = "batch"
  /\ SvcEnds(requestProjectModification(apiKeyEnv, svcFiles, svcReply),
             TrimmedKey(apiKeyEnv))

SvcNext ==
  \/ CallProcessCode
  \/ CallProcessCodeHandler
  \/ CallGrokBasic
  \/ CallGrokExtended
  \/ CallBatch


\* ------------------------------------------------ claims about the services
BatchSucceeded == svcName = "batch" /\ svcOutcome.status = 200

\* the FILE blocks of the reply written for the path of a submitted file
BlocksFor(path) ==
  {i \in 1..Len(svcReply.blocks) : Trim(svcReply.blocks[i].path) = Trim(path)}

\* those of them whose code is not blank
CodeBlocksFor(path) ==
  {i \in BlocksFor(path) : Trim(svcReply.blocks[i].code) # <<>>}

Last(S) == CHOOSE i \in S : \A j \in S : j <= i

SameFilesSamePaths ==
  /\ Len(svcOutcome.files) = Len(svcFiles)
  /\ \A i \in 1..Len(svcFiles) : svcOutcome.files[i].path = svcFiles[i].path

\* C8 as stated: a successful batch call returns one entry per submitted
\* file, in order and with its path; the code is the update of a FILE block
\* of the reply for that path whenever the reply holds one, and the submitted
\* code otherwise.
C8_AsStated ==
  BatchSucceeded =>
    /\ SameFilesSamePaths
    /\ \A i \in 1..Len(svcFiles) :
         IF BlocksFor(svcFiles[i].path) # {}
         THEN \E b \in BlocksFor(svcFiles[i].path) :
                svcOutcome.files[i].code = Trim(svcReply.blocks[b].code)
         ELSE svcOutcome.files[i].code = svcFiles[i].code

\* C8 amended: a successful batch call returns one entry per submitted file,
\* in order and with its path; the code is the trimmed code of the last FILE
\* block for that path (paths compared trimmed) whose code is not blank, and
\* the submitted code when the reply has no such block.
C8_BatchResultPerFile ==
  BatchSucceeded =>
    /\ SameFilesSamePaths
    /\ \A i \in 1..Len(svcFiles) :
         IF CodeBlocksFor(svcFiles[i].path) # {}
         THEN svcOutcome.files[i].code =
                Trim(svcReply.blocks[Last(CodeBlocksFor(svcFiles[i].path))].code)
         ELSE svcOutcome.files[i].code = svcFiles[i].code

\* C8 witness: three files submitted, blocks for two of them: two entries
\* carry the update and the third its submitted code
C8_Witness ==
  /\ BatchSucceeded
  /\ Len(svcFiles) = 3
  /\ Cardinality({i \in 1..3 : CodeBlocksFor(svcFiles[i].path) # {}}) = 2
  /\ Cardinality({i \in 1..3 : svcOutcome.files[i].code # svcFiles[i].code}) = 2

BatchCalled == svcName = "batch" /\ svcOutcome # NoOutcome

\* C9: a batch reply with content but no parsed file block fails with an
\* operational 502 whose message is "Grok AI did not return any file
\* updates"; no content fails with 502, no files with 400, no key with 500.
C9_BatchFailures ==
  BatchCalled =>
    /\ (svcFiles # <<>> /\ ~Falsy(TrimmedKey(apiKeyEnv))
        /\ svcReply.kind = "content" /\ ~Falsy(svcReply.text)
        /\ \A i \in 1..Len(svcReply.blocks) :
             Trim(svcReply.blocks[i].path) = <<>>
               \/ Trim(svcReply.blocks[i].code) = <<>>)
         => /\ svcOutcome.status = 502
            /\ svcOutcome.message = "Grok AI did not return any file updates"
    /\ (svcFiles # <<>> /\ ~Falsy(TrimmedKey(apiKeyEnv))
        /\ svcReply.kind = "content" /\ Falsy(svcReply.text))
         => svcOutcome.status = 502
    /\ svcFiles = <<>> => svcOutcome.status = 400
    /\ (svcFiles # <<>> /\ Falsy(TrimmedKey(apiKeyEnv)))
         => svcOutcome.status = 500

\* C9 without the message: the statuses alone
C9_BatchFailureStatuses ==
  BatchCalled =>
    /\ (svcFiles # <<>> /\ ~Falsy(TrimmedKey(apiKeyEnv))
        /\ svcReply.kind = "content"
        /\ parseBatchResponse(svcReply.blocks) = <<>>)
         => svcOutcome.status = 502
    /\ svcFiles = <<>> => svcOutcome.status = 400
    /\ (svcFiles # <<>> /\ Falsy(TrimmedKey(apiKeyEnv)))
         => svcOutcome.status = 500

\* C10: on every service a call to the provider is made only with a provider
\* key that is present (non-empty); with the key absent the operation fails
\* before any provider call.
C10_ProviderCalledOnlyWithKey ==
  /\ \A key \in providerKeys : ~Falsy(key)
  /\ (svcOutcome # NoOutcome /\ Falsy(apiKeyEnv))
       => svcOutcome.status # 200 /\ ~svcOutcome.called

\* C10 for the three Grok services alone
C10_GrokServicesCheckKey ==
  svcName \notin {"processCode", "processCodeHandler"}
    => C10_ProviderCalledOnlyWithKey

\* the files on disk and the version-control state of the model
DiskAndGitVars ==
  <<fileWrites, diskContent, gitHead, gitRemote, gitArgs, workContent,
    headContent, indexContent, repoLog>>

\* C14: POST /api/code/process with a missing or empty code field is
\* answered with an operational 400 whose message is exactly "Please provide
\* the code to process" and the provider is not called; no request to this
\* endpoint writes to disk or runs a version-control operation.
C14_MissingCodeRejectedNoSideEffects ==
  /\ []((svcName = "processCodeHandler" /\ svcOutcome # NoOutcome
          /\ Falsy(svcCode))
         => /\ svcOutcome
                = Failed(FALSE, 400, "Please provide the code to process")
            /\ providerKeys = {})
  /\ [][svcName = "processCodeHandler" => UNCHANGED DiskAndGitVars]_vars

\* C14 witness: a request whose code is the empty text was answered 400
C14_Witness ==
  /\ svcName = "processCodeHandler"
  /\ svcCode = <<>>
  /\ svcOutcome.status = 400
  /\ ~svcOutcome.called

C15_WitnessUpstream ==
  /\ svcName = "grokBasic"
  /\ svcReply.status = 503
  /\ svcOutcome.called
  /\ svcOutcome.status = 502

\* -------------------------------------------- the repository modification
\* what a request or the environment may give as repository path and as
\* target file ("" when absent)
RepoPathArgs == {EmptyPath, [abs |-> TRUE, segs |-> <<"repo">>]}

TargetFileArgs ==
  { EmptyPath,
    [abs |-> FALSE, segs |-> <<"f">>],
    [abs |-> FALSE, segs |-> <<"sub", "f">>],
    [abs |-> FALSE, segs |-> <<"..", "f">>] }

\* the server's working directory, against which path.resolve resolves
ServerCwd == <<"srv">>

resolveRepoPath(repoPath) ==
  IF repoPath = EmptyPath THEN Thrown
  ELSE Ok(pathResolve(ServerCwd, repoPath))

\* path.join(base, relative): joined and normalized
pathJoin(base, relative) == Normalize(base \o relative.segs)

\* a || b on path strings
OrElse(a, b) == IF a = EmptyPath THEN b ELSE a

\* git.status(): the files with a staged change, and all changed files
GitStatus ==
  [staged |-> (IF indexContent # headContent THEN {"target"} ELSE {})
                \cup (IF otherChanges = "staged" THEN {"other"} ELSE {}),
   files |-> (IF indexContent # headContent \/ workContent # indexContent
              THEN {"target"} ELSE {})
               \cup (IF otherChanges # "none" THEN {"other"} ELSE {})]

NoGitStatus == [staged |-> {"unknown"}, files |-> {"unknown"}]

Response(kind, status) == [kind |-> kind, status |-> status]
NoResponse == Response("pending", 0)

\* the request fields after the fallbacks: "" for a field that is absent
NoRepoRequest == [repoPath |-> EmptyPath, targetFile |-> EmptyPath]

\* the comparison of the returned code with the original, without trimming
IdenticalContentUntrimmed(updated, original) == updated = original

\* updatedCode.trim() === originalCode.trim()
IdenticalContent(updated, original) == Trim(updated) = Trim(original)

\* what HEAD may hold for the target file (NotText: the file is untracked)
HeadTexts == {NotText, <<>>, <<"a">>, <<"a", "a">>}

RepoInit ==
  /\ repoRequest = NoRepoRequest
  /\ baseRepoPath = <<>>
  /\ relativeFilePath = EmptyPath
  /\ filePath = <<>>
  /\ workContent \in Texts \cup {NotText}
  /\ headContent \in HeadTexts
  /\ indexContent \in {headContent, workContent}
  /\ otherChanges \in {"none", "unstaged", "staged"}
  /\ originalCode = NotText
  /\ statusPreAdd = NoGitStatus
  /\ statusPostAdd = NoGitStatus
  /\ repoPc = "start"
  /\ repoLog = <<>>
  /\ repoResult = NoResponse
  /\ svcName = "grokExtended"
  /\ apiKeyEnv \in KeyValues
  /\ svcCode = NotText
  /\ svcFiles = <<>>
  /\ svcReply = NotText
  /\ svcOutcome = NoOutcome
  /\ providerKeys = {}

RepoIdle ==
  /\ repoRequest = NoRepoRequest
  /\ baseRepoPath = <<>>
  /\ relativeFilePath = EmptyPath
  /\ filePath = <<>>
  /\ workContent = NotText
  /\ headContent = NotText
  /\ indexContent = NotText
  /\ otherChanges = "none"
  /\ originalCode = NotText
  /\ statusPreAdd = NoGitStatus
  /\ statusPostAdd = NoGitStatus
  /\ repoPc = "idle"
  /\ repoLog = <<>>
  /\ repoResult = NoResponse

\* the handler ends with a response
RepoEnds(kind, status) ==
  /\ repoPc' = "done"
  /\ repoResult' = Response(kind, status)

\* the request arrives: the handler's check of repoPath, then the service's
\* checks of the repository path and of the target file, and the join
RepoValidate ==
  /\ repoPc = "start"
  /\ \E repoPath \in RepoPathArgs, defaultRepoPath \in RepoPathArgs,
        targetFile_ \in TargetFileArgs,
        defaultTargetFile \in TargetFileArgs \ {[abs |-> FALSE,
                                                 segs |-> <<"..", "f">>]} :
       LET base == resolveRepoPath(OrElse(repoPath, defaultRepoPath))
           relative == OrElse(targetFile_, defaultTargetFile)
       IN  /\ repoRequest' = [repoPath |-> OrElse(repoPath, defaultRepoPath),
                               targetFile |-> relative]
           /\ IF (repoPath = EmptyPath /\ defaultRepoPath = EmptyPath)
                    \/ ~base.ok
              THEN /\ RepoEnds("error", 400)
                   /\ UNCHANGED <<baseRepoPath, relativeFilePath, filePath>>
              ELSE IF targetFile_ = EmptyPath /\ defaultTargetFile = EmptyPath
              THEN /\ RepoEnds("error", 400)
                   /\ baseRepoPath' = base.segs
                   /\ UNCHANGED <<relativeFilePath, filePath>>
              ELSE /\ baseRepoPath' = base.segs
                   /\ relativeFilePath' = relative
                   /\ filePath' = pathJoin(base.segs, relative)
                   /\ repoPc' = "exists"
                   /\ UNCHANGED repoResult
  /\ UNCHANGED <<workContent, headContent, indexContent, otherChanges,
                 originalCode, statusPreAdd, statusPostAdd, repoLog>>
  /\ UNCHANGED <<svcVars, NonRepoVars>>

\* fs.readFile with no ensureFileExists before it: a missing file reads as
\* empty
RepoReadUnchecked ==
  /\ repoPc = "exists"
  /\ originalCode' = IF workContent = NotText THEN <<>> ELSE workContent
  /\ repoPc' = "ask"
  /\ UNCHANGED <<repoRequest, baseRepoPath, relativeFilePath, filePath,
                 workContent, headContent, indexContent, otherChanges,
                 statusPreAdd, statusPostAdd, repoLog, repoResult>>
  /\ UNCHANGED <<svcVars, NonRepoVars>>

\* ensureFileExists, then fs.readFile
RepoRead ==
  /\ repoPc = "exists"
  /\ IF workContent = NotText
     THEN /\ RepoEnds("error", 404)
          /\ UNCHANGED originalCode
     ELSE /\ originalCode' = workContent
          /\ repoPc' = "ask"
          /\ UNCHANGED repoResult
  /\ UNCHANGED <<repoRequest, baseRepoPath, relativeFilePath, filePath,
                 workContent,
                 headContent, indexContent, otherChanges, statusPreAdd,
                 statusPostAdd, repoLog>>
  /\ UNCHANGED <<svcVars, NonRepoVars>>

\* requestCodeModification and the two checks of what it returned
RepoAsk ==
  /\ repoPc = "ask"
  /\ \E reply \in ProviderReplies :
       LET outcome == requestCodeModification(apiKeyEnv, originalCode, reply)
       IN  /\ svcReply' = reply
           /\ svcCode' = originalCode
           /\ svcOutcome' = outcome
           /\ providerKeys' = IF outcome.called
                              THEN providerKeys \cup {TrimmedKey(apiKeyEnv)}
                              ELSE providerKeys
           /\ IF outcome.status # 200
              THEN RepoEnds("error", outcome.status)
              ELSE IF Falsy(outcome.code)
              THEN RepoEnds("error", 502)
              ELSE IF IdenticalContent(outcome.code, originalCode)
              THEN RepoEnds("notUpdated", 200)
              ELSE /\ repoPc' = "write"
                   /\ UNCHANGED repoResult
  /\ UNCHANGED <<repoRequest, baseRepoPath, relativeFilePath, filePath,
                 workContent,
                 headContent, indexContent, otherChanges, originalCode,
                 statusPreAdd, statusPostAdd, repoLog>>
  /\ UNCHANGED <<svcName, apiKeyEnv, svcFiles>>
  /\ UNCHANGED NonRepoVars

\* fs.writeFile(filePath, updatedCode)
RepoWrite ==
  /\ repoPc = "write"
  /\ \E written \in BOOLEAN :
       /\ repoLog' = Append(repoLog, <<"write", written>>)
       /\ workContent' = IF written THEN svcOutcome.code ELSE workContent
       /\ IF written THEN repoPc' = "statusPre" /\ UNCHANGED repoResult
          ELSE RepoEnds("error", 500)
  /\ UNCHANGED <<repoRequest, baseRepoPath, relativeFilePath, filePath,
                 headContent,
                 indexContent, otherChanges, originalCode, statusPreAdd,
                 statusPostAdd>>
  /\ UNCHANGED <<svcVars, NonRepoVars>>

\* git.status() before staging
RepoStatusPre ==
  /\ repoPc = "statusPre"
  /\ \E succeeded \in BOOLEAN :
       /\ repoLog' = Append(repoLog, <<"status", succeeded>>)
       /\ statusPreAdd' = IF succeeded THEN GitStatus ELSE statusPreAdd
       /\ IF succeeded THEN repoPc' = "add" /\ UNCHANGED repoResult
          ELSE RepoEnds("error", 500)
  /\ UNCHANGED <<repoRequest, baseRepoPath, relativeFilePath, filePath,
                 workContent,
                 headContent, indexContent, otherChanges, originalCode,
                 statusPostAdd>>
  /\ UNCHANGED <<svcVars, NonRepoVars>>

\* git.add(relativeFilePath): the index takes the text on disk
RepoAdd ==
  /\ repoPc = "add"
  /\ \E succeeded \in BOOLEAN :
       /\ repoLog' = Append(repoLog, <<"add", succeeded>>)
       /\ indexContent' = IF succeeded THEN workContent ELSE indexContent
       /\ IF succeeded THEN repoPc' = "statusPost" /\ UNCHANGED repoResult
          ELSE RepoEnds("error", 500)
  /\ UNCHANGED <<repoRequest, baseRepoPath, relativeFilePath, filePath,
                 workContent,
                 headContent, otherChanges, originalCode, statusPreAdd,
                 statusPostAdd>>
  /\ UNCHANGED <<svcVars, NonRepoVars>>

\* statusPostAdd.staged.length === 0 && statusPostAdd.files.length === 0
NothingToCommit(status) == status.staged = {} /\ status.files = {}

\* git.status() after staging, and the test that skips the commit
RepoStatusPost ==
  /\ repoPc = "statusPost"
  /\ \E succeeded \in BOOLEAN :
       /\ repoLog' = Append(repoLog, <<"status", succeeded>>)
       /\ statusPostAdd' = IF succeeded THEN GitStatus ELSE statusPostAdd
       /\ IF ~succeeded THEN RepoEnds("error", 500)
          ELSE IF NothingToCommit(GitStatus)
          THEN RepoEnds("updatedNoCommit", 200)
          ELSE repoPc' = "commit" /\ UNCHANGED repoResult
  /\ UNCHANGED <<repoRequest, baseRepoPath, relativeFilePath, filePath,
                 workContent,
                 headContent, indexContent, otherChanges, originalCode,
                 statusPreAdd>>
  /\ UNCHANGED <<svcVars, NonRepoVars>>

\* git.commit(commitMsg): what is staged becomes HEAD
RepoCommit ==
  /\ repoPc = "commit"
  /\ \E succeeded \in BOOLEAN :
       /\ repoLog' = Append(repoLog, <<"commit", succeeded>>)
       /\ headContent' = IF succeeded THEN indexContent ELSE headContent
       /\ otherChanges' = IF succeeded /\ otherChanges = "staged" THEN "none"
                          ELSE otherChanges
       /\ IF succeeded THEN repoPc' = "push" /\ UNCHANGED repoResult
          ELSE RepoEnds("error", 500)
  /\ UNCHANGED <<repoRequest, baseRepoPath, relativeFilePath, filePath,
                 workContent,
                 indexContent, originalCode, statusPreAdd, statusPostAdd>>
  /\ UNCHANGED <<svcVars, NonRepoVars>>

\* git.push()
RepoPush ==
  /\ repoPc = "push"
  /\ \E succeeded \in BOOLEAN :
       /\ repoLog' = Append(repoLog, <<"push", succeeded>>)
       /\ IF succeeded THEN RepoEnds("updated", 200)
          ELSE RepoEnds("error", 500)
  /\ UNCHANGED <<repoRequest, baseRepoPath, relativeFilePath, filePath,
                 workContent,
                 headContent, indexContent, otherChanges, originalCode,
                 statusPreAdd, statusPostAdd>>
  /\ UNCHANGED <<svcVars, NonRepoVars>>

RepoNext ==
  \/ RepoValidate
  \/ RepoRead
  \/ RepoAsk
  \/ RepoWrite
  \/ RepoStatusPre
  \/ RepoAdd
  \/ RepoStatusPost
  \/ RepoCommit
  \/ RepoPush

\* ------------------------------- claims about the repository modification
RepoRan(step) == \E i \in 1..Len(repoLog) : repoLog[i][1] = step

\* C1: POST /api/repo/modify attempts git commit and git push only when
\* writing the target file left a change of that file for git, whatever else
\* is modified or staged in the repository; when staging the target file
\* yields no change the call answers updated:true without commit or push.
C1_CommitOnlyOnTargetDiff ==
  /\ (RepoRan("commit") \/ RepoRan("push") \/ repoPc \in {"commit", "push"})
       => "target" \in statusPostAdd.files
  /\ (statusPostAdd # NoGitStatus /\ "target" \notin statusPostAdd.files)
       => /\ repoResult = Response("updatedNoCommit", 200)
          /\ ~RepoRan("commit")
          /\ ~RepoRan("push")

\* C1 restricted to a repository where git reports no other changed file
C1_CleanRepoCommitOnlyOnTargetDiff ==
  "other" \notin statusPostAdd.files => C1_CommitOnlyOnTargetDiff

ProviderReturned == repoPc \notin {"start", "exists", "ask"}
                      /\ svcOutcome.status = 200

\* C2 as stated: whenever the returned code, trimmed, equals the original,
\* trimmed, the result is updated:false and there is no filesystem write
\* and no git operation.
C2_AsStated ==
  (ProviderReturned /\ Trim(svcOutcome.code) = Trim(originalCode))
    => /\ repoResult = Response("notUpdated", 200)
       /\ repoLog = <<>>

\* C2 amended: whenever the returned code, trimmed, equals the original,
\* trimmed, there is no filesystem write and no git operation; the result is
\* updated:false when the returned code is not empty, and an operational 502
\* when it is empty (the original being blank).
C2_IdenticalContentNoEffects ==
  (ProviderReturned /\ Trim(svcOutcome.code) = Trim(originalCode))
    => /\ repoLog = <<>>
       /\ workContent = originalCode
       /\ repoPc = "done"
       /\ repoResult = IF svcOutcome.code # <<>>
                       THEN Response("notUpdated", 200)
                       ELSE Response("error", 502)

\* C2 witness: the original differs from the returned code by surrounding
\* blanks only, and the call answered updated:false
C2_Witness ==
  /\ ProviderReturned
  /\ svcOutcome.code # originalCode
  /\ Trim(svcOutcome.code) = Trim(originalCode)
  /\ repoResult = Response("notUpdated", 200)

\* the request lacks repoPath or targetFile after the fallbacks
RepoFieldMissing ==
  repoRequest.repoPath = EmptyPath \/ repoRequest.targetFile = EmptyPath

\* nothing was asked of the provider, written, or run in git
RepoNoEffects ==
  /\ providerKeys = {}
  /\ ~svcOutcome.called
  /\ repoLog = <<>>

\* C12: POST /api/repo/modify answers 400 when repoPath or targetFile is
\* absent after the environment fallbacks, and 404 when the joined target
\* path does not exist; in these cases the provider is not called, no file
\* is written and no git operation is run.
C12_MissingFieldOrFileRejected ==
  /\ (repoPc # "start" /\ RepoFieldMissing)
       => /\ repoPc = "done"
          /\ repoResult = Response("error", 400)
          /\ RepoNoEffects
  /\ (repoPc \notin {"start", "exists"} /\ ~RepoFieldMissing
        /\ workContent = NotText)
       => /\ repoPc = "done"
          /\ repoResult = Response("error", 404)
          /\ RepoNoEffects

\* C12 witness: a request with both fields whose target file does not exist
\* was answered 404
C12_Witness ==
  /\ ~RepoFieldMissing
  /\ workContent = NotText
  /\ repoResult = Response("error", 404)

\* C12 second case reached: the target file is absent after the fallbacks
\* while the repository path is given, answered 400
C12_WitnessMissingField ==
  /\ repoRequest.repoPath # EmptyPath
  /\ repoRequest.targetFile = EmptyPath
  /\ repoResult = Response("error", 400)

\* ---------------------------------------------------- the directory handler
PROJECT_ROOT == <<"repo">>

IGNORED_DIRECTORIES ==
  {"node_modules", ".git", "dist", "build", "coverage", ".next", ".turbo"}

allowedExtensions == {".js", ".ts", ".tsx"}

\* path.extname(name).toLowerCase() of the entry names of the model: "f" is
\* a JavaScript file name, "doc" a Markdown one
extname(name) ==
  IF name = "f" THEN ".js" ELSE IF name = "doc" THEN ".md" ELSE ""

\* a directory outside the project root, holding one JavaScript file; every
\* symbolic link of the model points to it
OutsideDir == <<"out">>

EntryNames == {"f", "doc", "sub", "lib", "node_modules"}

\* the paths of the project whose content varies
FsPaths ==
  { <<"repo", "f">>, <<"repo", "doc">>, <<"repo", "sub">>,
    <<"repo", "sub", "f">>, <<"repo", "lib">>, <<"repo", "lib", "f">>,
    <<"repo", "node_modules">>, <<"repo", "node_modules", "f">> }

\* what a location holds (the location has no symbolic link on its way)
KindAt(loc) ==
  IF loc = PROJECT_ROOT \/ loc = OutsideDir THEN "dir"
  ELSE IF loc = Append(OutsideDir, "f") THEN "file"
  ELSE IF loc \in FsPaths THEN fsKind[loc]
  ELSE "absent"

RECURSIVE RealInto(_, _)
RealInto(acc, rest) ==
  IF rest = <<>> THEN acc
  ELSE LET next == Append(acc, Head(rest))
       IN  IF KindAt(next) = "link" THEN RealInto(OutsideDir, Tail(rest))
           ELSE RealInto(next, Tail(rest))

\* the location the operating system reaches for a path: symbolic links on
\* the way, the last segment included, are followed
RealPath(segs) == RealInto(<<>>, segs)

\* fs.stat(path): follows symbolic links
fsStat(segs) == KindAt(RealPath(segs))

\* fs.readdir(dir, {withFileTypes: true}): the names in the directory reached
readdir(dir) ==
  {name \in EntryNames : KindAt(Append(RealPath(dir), name)) # "absent"}

\* the type of a directory entry: a symbolic link is reported as such
direntKind(dir, name) == KindAt(Append(RealPath(dir), name))

ensurePathWithinProject(targetPath) ==
  LET normalizedPath == pathResolve(PROJECT_ROOT, targetPath)
      isSameDirectory == normalizedPath = PROJECT_ROOT
      isChildPath == StartsWithDir(normalizedPath, PROJECT_ROOT)
  IN  IF ~isSameDirectory /\ ~isChildPath THEN Thrown
      ELSE Ok(normalizedPath)

\* a path string from its segments
RECURSIVE PathText(_)
PathText(segs) ==
  IF segs = <<>> THEN <<>>
  ELSE IF Len(segs) = 1 THEN segs
  ELSE <<Head(segs), "/">> \o PathText(Tail(segs))

\* the directoryPath values of a request ("" when absent)
DirectoryArgs ==
  { EmptyPath,
    [abs |-> FALSE, segs |-> <<".">>],
    [abs |-> FALSE, segs |-> <<"sub">>],
    [abs |-> FALSE, segs |-> <<"lib">>],
    [abs |-> FALSE, segs |-> <<"f">>],
    [abs |-> FALSE, segs |-> <<"node_modules">>],
    [abs |-> FALSE, segs |-> <<"..", "out">>],
    [abs |-> FALSE, segs |-> <<"sub", "..", "..", "out">>],
    [abs |-> TRUE, segs |-> <<"out">>],
    [abs |-> TRUE, segs |-> <<"repo", "sub">>] }

NoCalls == [d \in {} |-> 0]

DirInit ==
  /\ fsKind \in [FsPaths -> {"absent", "file", "dir", "link"}]
  /\ fsKind[<<"repo", "f">>] \in {"absent", "file", "link"}
  /\ fsKind[<<"repo", "doc">>] \in {"absent", "file"}
  /\ fsKind[<<"repo", "lib">>] \in {"absent", "dir", "link"}
  /\ fsKind[<<"repo", "node_modules">>] \in {"absent", "dir"}
  /\ fsKind[<<"repo", "sub", "f">>] \in
       IF fsKind[<<"repo", "sub">>] = "dir" THEN {"absent", "file", "link"}
       ELSE {"absent"}
  /\ fsKind[<<"repo", "lib", "f">>] \in
       IF fsKind[<<"repo", "lib">>] = "dir" THEN {"absent", "file"}
       ELSE {"absent"}
  /\ fsKind[<<"repo", "node_modules", "f">>] =
       IF fsKind[<<"repo", "node_modules">>] = "dir" THEN "file" ELSE "absent"
  /\ directoryPath = EmptyPath
  /\ resolvedDirectory = <<>>
  /\ calls = NoCalls
  /\ enumerated = {}
  /\ readLocations = {}
  /\ jsFiles = <<>>
  /\ dirPc = "start"
  /\ dirResult = NoResponse
  /\ svcName = "batch"
  /\ apiKeyEnv \in {NotText, <<"a">>}
  /\ svcCode = NotText
  /\ svcFiles = <<>>
  /\ svcReply = NotText
  /\ svcOutcome = NoOutcome
  /\ providerKeys = {}

DirIdle ==
  /\ fsKind = [p \in FsPaths |-> "absent"]
  /\ directoryPath = EmptyPath
  /\ resolvedDirectory = <<>>
  /\ calls = NoCalls
  /\ enumerated = {}
  /\ readLocations = {}
  /\ jsFiles = <<>>
  /\ dirPc = "idle"
  /\ dirResult = NoResponse

DirEnds(kind, status) ==
  /\ dirPc' = "done"
  /\ dirResult' = Response(kind, status)

Reading == [state |-> "reading", files |-> <<>>]

\* the request arrives: the check of directoryPath, ensurePathWithinProject,
\* fs.stat, and the outermost call of collectJsFiles
DirValidate ==
  /\ dirPc = "start"
  /\ \E requested \in DirectoryArgs :
       LET resolved == ensurePathWithinProject(requested)
       IN  /\ directoryPath' = requested
           /\ IF requested = EmptyPath \/ ~resolved.ok
              THEN /\ DirEnds("error", 400)
                   /\ UNCHANGED <<resolvedDirectory, calls>>
              ELSE IF fsStat(resolved.segs) # "dir"
              THEN /\ DirEnds("error", 400)
                   /\ resolvedDirectory' = resolved.segs
                   /\ UNCHANGED calls
              ELSE /\ resolvedDirectory' = resolved.segs
                   /\ calls' = [d \in {resolved.segs} |-> Reading]
                   /\ dirPc' = "collect"
                   /\ UNCHANGED dirResult
  /\ UNCHANGED <<fsKind, enumerated, readLocations, jsFiles>>
  /\ UNCHANGED <<svcVars, NonDirVars>>

\* the subdirectories collectJsFiles descends into, the ignored ones too
NestedDirectoriesWithIgnored(dir) ==
  {name \in readdir(dir) : direntKind(dir, name) = "dir"}

\* the subdirectories a call of collectJsFiles descends into
NestedDirectories(dir) ==
  {name \in readdir(dir) : /\ direntKind(dir, name) = "dir"
                           /\ name \notin IGNORED_DIRECTORIES}

\* the files a call of collectJsFiles takes from its own directory
OwnFiles(dir) ==
  IF /\ "f" \in readdir(dir)
     /\ direntKind(dir, "f") = "file"
     /\ extname("f") \in allowedExtensions
  THEN <<Append(dir, "f")>> ELSE <<>>

\* collectJsFiles(dir): fs.readdir resolves and every entry is handled up to
\* its first await; the nested calls start
DirReaddir(dir) ==
  /\ dirPc = "collect"
  /\ dir \in DOMAIN calls
  /\ calls[dir].state = "reading"
  /\ enumerated' = enumerated \cup {RealPath(dir)}
  /\ LET nested == {Append(dir, name) : name \in NestedDirectories(dir)}
     IN  calls' = [d \in DOMAIN calls \cup nested |->
                     IF d = dir
                     THEN [state |-> "waiting", files |-> OwnFiles(dir)]
                     ELSE IF d \in DOMAIN calls THEN calls[d] ELSE Reading]
  /\ UNCHANGED <<fsKind, directoryPath, resolvedDirectory, readLocations,
                 jsFiles, dirPc, dirResult>>
  /\ UNCHANGED <<svcVars, NonDirVars>>

NestedCalls(dir) ==
  {d \in DOMAIN calls : Len(d) = Len(dir) + 1 /\ StartsWithDir(d, dir)}

\* a call of collectJsFiles returns once its nested calls have: its files
\* are pushed to the caller's, or, for the outermost call, handed to the
\* handler, which rejects an empty list
DirReturn(dir) ==
  /\ dirPc = "collect"
  /\ dir \in DOMAIN calls
  /\ calls[dir].state = "waiting"
  /\ \A d \in NestedCalls(dir) : calls[d].state = "returned"
  /\ IF dir = resolvedDirectory
     THEN /\ calls' = [calls EXCEPT ![dir].state = "returned"]
          /\ jsFiles' = calls[dir].files
          /\ IF calls[dir].files = <<>> THEN DirEnds("error", 400)
             ELSE dirPc' = "read" /\ UNCHANGED dirResult
     ELSE /\ calls' = [calls EXCEPT
                         ![dir].state = "returned",
                         ![SubSeq(dir, 1, Len(dir) - 1)].files =
                           @ \o calls[dir].files]
          /\ UNCHANGED <<jsFiles, dirPc, dirResult>>
  /\ UNCHANGED <<fsKind, directoryPath, resolvedDirectory, enumerated,
                 readLocations>>
  /\ UNCHANGED <<svcVars, NonDirVars>>

\* every collected file is read and paired with its path relative to the
\* project root
DirReadFiles ==
  /\ dirPc = "read"
  /\ readLocations' = {RealPath(jsFiles[i]) : i \in 1..Len(jsFiles)}
  /\ svcFiles' = [i \in 1..Len(jsFiles) |->
                    [path |-> PathText(pathRelative(PROJECT_ROOT, jsFiles[i])),
                     code |-> <<"a">>]]
  /\ dirPc' = "ask"
  /\ UNCHANGED <<fsKind, directoryPath, resolvedDirectory, calls, enumerated,
                 jsFiles, dirResult>>
  /\ UNCHANGED <<svcName, apiKeyEnv, svcCode, svcReply, svcOutcome,
                 providerKeys>>
  /\ UNCHANGED NonDirVars

\* what the provider may answer to the batch call for the given files
DirectoryReplies(files) ==
  { [kind |-> "error", status |-> 500, text |-> NotText, blocks |-> <<>>],
    [kind |-> "content", status |-> 200, text |-> <<"a">>, blocks |-> <<>>],
    [kind |-> "content", status |-> 200, text |-> <<"a">>,
     blocks |-> <<[path |-> files[1].path, code |-> <<"a", "a">>]>>] }

\* requestProjectModification and the response
DirAsk ==
  /\ dirPc = "ask"
  /\ \E reply \in DirectoryReplies(svcFiles) :
       LET outcome == requestProjectModification(apiKeyEnv, svcFiles, reply)
       IN  /\ svcReply' = reply
           /\ svcOutcome' = outcome
           /\ providerKeys' = IF outcome.called
                              THEN providerKeys \cup {TrimmedKey(apiKeyEnv)}
                              ELSE providerKeys
           /\ IF outcome.status = 200 THEN DirEnds("success", 200)
              ELSE DirEnds("error", outcome.status)
  /\ UNCHANGED <<fsKind, directoryPath, resolvedDirectory, calls, enumerated,
                 readLocations, jsFiles>>
  /\ UNCHANGED <<svcName, apiKeyEnv, svcCode, svcFiles>>
  /\ UNCHANGED NonDirVars

DirCollect == \E dir \in DOMAIN calls : DirReaddir(dir)

DirCollected == \E dir \in DOMAIN calls : DirReturn(dir)

DirNext ==
  \/ DirValidate
  \/ DirCollect
  \/ DirCollected
  \/ DirReadFiles
  \/ DirAsk

\* ------------------------------------------ claims about the directory handler
EscapesProjectRoot(requested) ==
  ~Inside(pathResolve(PROJECT_ROOT, requested), PROJECT_ROOT)

\* C7: POST /api/grok/refactor-directory with a directoryPath that escapes
\* the project root is answered with HTTP 400, and for every request the
\* handler never lists or reads a filesystem entry located outside the
\* project root.
C7_NeverOutsideProjectRoot ==
  /\ (dirPc # "start" /\ directoryPath # EmptyPath
        /\ EscapesProjectRoot(directoryPath))
       => dirResult = Response("error", 400)
  /\ \A loc \in enumerated \cup readLocations : Inside(loc, PROJECT_ROOT)

\* C7 for the requests whose directoryPath escapes the project root: they
\* are answered with HTTP 400 and nothing is listed or read
C7_EscapingPathRejected ==
  (dirPc # "start" /\ directoryPath # EmptyPath
     /\ EscapesProjectRoot(directoryPath))
    => /\ dirResult = Response("error", 400)
       /\ enumerated = {}
       /\ readLocations = {}

\* ------------------------------------------------- the provider client cache
\* the keys initClient is called with (trimmed, non-empty)
ClientKeys == {<<"a">>, <<"a", "a">>}

\* a client record: the key it was built for, and which construction made it
NoClient == [apiKey |-> NotText, id |-> 0]

\* the cache test as if any cached client would do
CacheHitIgnoringKey(cached, apiKey) == cached # NoClient

\* cachedClient && cachedClient.apiKey === apiKey
CacheHit(cached, apiKey) == cached # NoClient /\ cached.apiKey = apiKey

\* a call of initClient: its key, where it is, the cache when it started,
\* what it returned, the cache when it returned, whether it constructed
NoCall ==
  [key |-> NotText, state |-> "idle", before |-> NoClient,
   result |-> NoClient, after |-> NoClient, constructed |-> FALSE]

ClientInit ==
  /\ clientMode \in {"sequential", "concurrent"}
  /\ cachedClient = NoClient
  /\ clientCalls = [i \in 1..MaxCalls |-> NoCall]
  /\ clientsBuilt = 0

ClientIdle ==
  /\ clientMode = "none"
  /\ cachedClient = NoClient
  /\ clientCalls = <<>>
  /\ clientsBuilt = 0

\* initClient(apiKey) up to its first await: a cache hit returns the cached
\* client, a miss waits for the imports
ClientStart(i) ==
  /\ clientCalls[i].state = "idle"
  /\ \A j \in 1..(i - 1) : clientCalls[j].state # "idle"
  /\ clientMode = "sequential"
       => \A j \in 1..MaxCalls : clientCalls[j].state # "importing"
  /\ \E apiKey \in ClientKeys :
       clientCalls' =
         [clientCalls EXCEPT ![i] =
            IF CacheHit(cachedClient, apiKey)
            THEN [key |-> apiKey, state |-> "done", before |-> cachedClient,
                  result |-> cachedClient, after |-> cachedClient,
                  constructed |-> FALSE]
            ELSE [key |-> apiKey, state |-> "importing",
                  before |-> cachedClient, result |-> NoClient,
                  after |-> NoClient, constructed |-> FALSE]]
  /\ UNCHANGED <<clientMode, cachedClient, clientsBuilt>>
  /\ UNCHANGED NonClientVars

\* initClient after the imports: the client is constructed, stored in
\* cachedClient and returned
ClientFinish(i) ==
  /\ clientCalls[i].state = "importing"
  /\ LET built == [apiKey |-> clientCalls[i].key, id |-> clientsBuilt + 1]
     IN  /\ cachedClient' = built
         /\ clientsBuilt' = clientsBuilt + 1
         /\ clientCalls' =
              [clientCalls EXCEPT ![i] =
                 [@ EXCEPT !.state = "done", !.result = built,
                           !.after = built, !.constructed = TRUE]]
  /\ UNCHANGED clientMode
  /\ UNCHANGED NonClientVars

ClientStarts == \E i \in 1..MaxCalls : ClientStart(i)

ClientFinishes == \E i \in 1..MaxCalls : ClientFinish(i)

ClientNext ==
  \/ ClientStarts
  \/ ClientFinishes

\* -------------------------------------------- claims about the client cache
ClientDone(i) == clientCalls[i].state = "done"

\* C11: with initClient called sequentially, a call whose key equals the key
\* of the cached client returns that client and constructs nothing, and a
\* call whose key differs from it, or made with the cache empty, constructs a
\* new client and leaves it in the cache.
C11_SequentialCacheReuse ==
  clientMode = "sequential" =>
    \A i \in 1..MaxCalls :
      ClientDone(i) =>
        LET call == clientCalls[i]
        IN  IF call.before # NoClient /\ call.before.apiKey = call.key
            THEN /\ ~call.constructed
                 /\ call.result = call.before
                 /\ call.after = call.before
            ELSE /\ call.constructed
                 /\ call.result.apiKey = call.key
                 /\ call.result # call.before
                 /\ \A j \in 1..(i - 1) : clientCalls[j].result # call.result
                 /\ call.after = call.result

\* C11 witness: three sequential calls: the first constructs, the second has
\* the same key and reuses, the third has another key and constructs again
C11_Witness ==
  /\ clientMode = "sequential"
  /\ \A i \in 1..3 : ClientDone(i)
  /\ clientCalls[1].constructed
  /\ clientCalls[2].key = clientCalls[1].key
  /\ clientCalls[2].result = clientCalls[1].result
  /\ clientCalls[3].key # clientCalls[1].key
  /\ clientCalls[3].constructed
  /\ cachedClient = clientCalls[3].result

\* ------------------------------------------------ the single-file handler
\* a body field: its type, and its text when it is a string
Field(type, text) == [type |-> type, text |-> text]

\* the values the code field of a request may have: absent, a number (0 or
\* not), an object, or a string
CodeFields ==
  {Field("undefined", NotText), Field("zero", NotText),
   Field("number", NotText), Field("object", NotText)}
    \cup {Field("string", t) : t \in Texts}

\* !value
FieldFalsy(field) ==
  \/ field.type \in {"undefined", "zero"}
  \/ field.type = "string" /\ field.text = <<>>

\* the content of the bundled sample-test.js
SampleFixture == <<"a", " ", "a">>

\* the fixture test as if only an absent field led to the fixture
UsesFixtureWhenAbsent(field) == field.type = "undefined"

\* !sourceCode || typeof sourceCode !== 'string'
UsesFixture(field) == FieldFalsy(field) \/ field.type # "string"

RefactorInit ==
  /\ refactorField = Field("undefined", NotText)
  /\ effectiveFilePath = "inline-request"
  /\ refactorPc = "start"
  /\ refactorResult = NoResponse
  /\ svcName = "grokExtended"
  /\ apiKeyEnv \in KeyValues
  /\ svcCode = NotText
  /\ svcFiles = <<>>
  /\ svcReply = NotText
  /\ svcOutcome = NoOutcome
  /\ providerKeys = {}

RefactorIdle ==
  /\ refactorField = Field("undefined", NotText)
  /\ effectiveFilePath = "inline-request"
  /\ refactorPc = "idle"
  /\ refactorResult = NoResponse

\* the request arrives: the source code and its label are chosen, the
\* fixture being read when the code field cannot be used
RefactorReceive ==
  /\ refactorPc = "start"
  /\ \E field \in CodeFields :
       /\ refactorField' = field
       /\ svcCode' = IF UsesFixture(field) THEN SampleFixture ELSE field.text
       /\ effectiveFilePath' = IF UsesFixture(field) THEN "sample-test.js"
                               ELSE "inline-request"
  /\ refactorPc' = "ask"
  /\ UNCHANGED refactorResult
  /\ UNCHANGED <<svcName, apiKeyEnv, svcFiles, svcReply, svcOutcome,
                 providerKeys>>
  /\ UNCHANGED NonRefactorVars

\* requestCodeModification and the response
RefactorAsk ==
  /\ refactorPc = "ask"
  /\ \E reply \in ProviderReplies :
       LET outcome == requestCodeModification(apiKeyEnv, svcCode, reply)
       IN  /\ svcReply' = reply
           /\ svcOutcome' = outcome
           /\ providerKeys' = IF outcome.called
                              THEN providerKeys \cup {TrimmedKey(apiKeyEnv)}
                              ELSE providerKeys
           /\ refactorResult' =
                Response(IF outcome.status = 200 THEN "success" ELSE "error",
                         outcome.status)
  /\ refactorPc' = "done"
  /\ UNCHANGED <<refactorField, effectiveFilePath>>
  /\ UNCHANGED <<svcName, apiKeyEnv, svcCode, svcFiles>>
  /\ UNCHANGED NonRefactorVars

RefactorNext ==
  \/ RefactorReceive
  \/ RefactorAsk

\* --------------------------------------- claims about the single-file handler
\* the handler transforms the fixture under the fixture's name
TransformsFixture ==
  svcCode = SampleFixture /\ effectiveFilePath = "sample-test.js"

\* the handler transforms the supplied code as an inline request
TransformsSupplied ==
  svcCode = refactorField.text /\ effectiveFilePath = "inline-request"

\* the request did not fail for lack of code
NotFailedForMissingCode ==
  svcOutcome.message # "Source code is required for Grok processing"

\* C13 as stated: with the code absent or not text the handler transforms
\* the fixture under the label sample-test.js, with the code supplied as text
\* it transforms exactly the supplied code under the label inline-request,
\* and the request never fails merely because code is missing.
C13_AsStated ==
  refactorPc \in {"ask", "done"} =>
    /\ IF refactorField.type # "string" THEN TransformsFixture
       ELSE TransformsSupplied
    /\ refactorField.type # "string" => NotFailedForMissingCode

\* C13 amended: with the code absent, not text, or the empty text the
\* handler transforms the fixture under the label sample-test.js; with the
\* code supplied as non-empty text it transforms exactly the supplied code
\* under the label inline-request; a request whose code is absent, not text
\* or empty never fails for lack of code.
C13_FixtureWhenCodeUnusable ==
  refactorPc \in {"ask", "done"} =>
    LET unusable == refactorField.type # "string" \/ refactorField.text = <<>>
    IN  /\ IF unusable THEN TransformsFixture ELSE TransformsSupplied
        /\ unusable => NotFailedForMissingCode

\* C13 witness: the code field is the empty text, the fixture was
\* transformed and the request succeeded
C13_Witness ==
  /\ refactorPc = "done"
  /\ refactorField = Field("string", <<>>)
  /\ TransformsFixture
  /\ refactorResult = Response("success", 200)

\* ------------------------------------------------------------ CLI settings
\* scripts/autoRefactorAndPush.js, extended revision, lines 20-94

MaxArgs == 3

DirFlag == <<"-", "-", "d", "i", "r">>
DirectoryFlag == <<"-", "-", "d", "i", "r", "e", "c", "t", "o", "r", "y">>
FileFlag == <<"-", "-", "f", "i", "l", "e">>
InstructionFlag ==
  <<"-", "-", "i", "n", "s", "t", "r", "u", "c", "t", "i", "o", "n">>
GitRootFlag == <<"-", "-", "g", "i", "t", "-", "r", "o", "o", "t">>
GitWorkdirFlag ==
  <<"-", "-", "g", "i", "t", "-", "w", "o", "r", "k", "d", "i", "r">>
UnknownFlag == <<"-", "-", "x">>

\* the tokens a command line is made of: bare flags, value texts, and flags
\* with an inline value
Tokens ==
  { DirFlag, DirectoryFlag, FileFlag, InstructionFlag, GitRootFlag,
    GitWorkdirFlag, UnknownFlag,
    <<"a">>, <<" ">>, <<>>, <<"a", "=", "a">>,
    FileFlag \o <<"=", "a">>, FileFlag \o <<"=", "a", "=", "a">>,
    FileFlag \o <<"=">>, DirFlag \o <<"=", "a">>,
    UnknownFlag \o <<"=", "a">> }

\* the environments of a run
Envs ==
  { [GROK_TARGET_FILE |-> NotText, GROK_TARGET_DIR |-> NotText,
     GROK_ADDITIONAL_INSTRUCTION |-> NotText, GROK_GIT_WORKDIR |-> NotText],
    [GROK_TARGET_FILE |-> <<"b">>, GROK_TARGET_DIR |-> <<"b">>,
     GROK_ADDITIONAL_INSTRUCTION |-> <<"b">>, GROK_GIT_WORKDIR |-> <<"b">>],
    [GROK_TARGET_FILE |-> <<"b">>, GROK_TARGET_DIR |-> <<" ", "b">>,
     GROK_ADDITIONAL_INSTRUCTION |-> NotText, GROK_GIT_WORKDIR |-> <<"b">>],
    [GROK_TARGET_FILE |-> NotText, GROK_TARGET_DIR |-> <<" ">>,
     GROK_ADDITIONAL_INSTRUCTION |-> <<>>, GROK_GIT_WORKDIR |-> NotText],
    [GROK_TARGET_FILE |-> <<>>, GROK_TARGET_DIR |-> <<>>,
     GROK_ADDITIONAL_INSTRUCTION |-> <<"b">>, GROK_GIT_WORKDIR |-> <<>>],
    [GROK_TARGET_FILE |-> NotText, GROK_TARGET_DIR |-> <<"b">>,
     GROK_ADDITIONAL_INSTRUCTION |-> NotText, GROK_GIT_WORKDIR |-> NotText] }

\* token.startsWith("--")
startsWithDashes(token) ==
  Len(token) >= 2 /\ token[1] = "-" /\ token[2] = "-"

\* the position of the first "=" of the token at or after from, 0 if none
IndexOfEquals(token, from) ==
  LET hits == {i \in from..Len(token) : token[i] = "="}
  IN  IF hits = {} THEN 0 ELSE Min(hits)

\* token.split("=", 2): the text before the first "=" and, when there is
\* one, the text between the first "=" and the second one (or the end)
splitFlag(token) ==
  LET first == IndexOfEquals(token, 1)
      second == IF first = 0 THEN 0 ELSE IndexOfEquals(token, first + 1)
  IN  IF first = 0
      THEN [flag |-> token, inlineValue |-> NotText]
      ELSE [flag |-> SubSeq(token, 1, first - 1),
            inlineValue |->
              SubSeq(token, first + 1,
                     IF second = 0 THEN Len(token) ELSE second - 1)]

\* the switch over the flag: the key it sets, "none" for the default case
SettingOf(flag) ==
  IF flag \in {DirFlag, DirectoryFlag} THEN "targetDir"
  ELSE IF flag = FileFlag THEN "targetFile"
  ELSE IF flag = InstructionFlag THEN "instruction"
  ELSE IF flag \in {GitRootFlag, GitWorkdirFlag} THEN "gitWorkdir"
  ELSE "none"

Settings == {"targetDir", "targetFile", "instruction", "gitWorkdir"}

\* const args = {}
NoArgs == [key \in Settings |-> NotText]

\* the loop of parseCliArgs from token i on
RECURSIVE parseFrom(_, _, _)
parseFrom(tokens, i, args) ==
  IF i > Len(tokens) THEN args
  ELSE IF ~startsWithDashes(tokens[i]) THEN parseFrom(tokens, i + 1, args)
  ELSE
    LET parts == splitFlag(tokens[i])
        takesNext == /\ parts.inlineValue = NotText
                     /\ i + 1 <= Len(tokens)
                     /\ ~startsWithDashes(tokens[i + 1])
        value == IF parts.inlineValue # NotText THEN parts.inlineValue
                 ELSE IF takesNext THEN tokens[i + 1] ELSE NotText
        after == IF takesNext THEN i + 2 ELSE i + 1
        key == SettingOf(parts.flag)
    IN  IF value = NotText \/ key = "none"
        THEN parseFrom(tokens, after, args)
        ELSE parseFrom(tokens, after, [args EXCEPT ![key] = value])

parseCliArgs(tokens) == parseFrom(tokens, 1, NoArgs)

\* a || b on texts: b when a is undefined or empty
TextOr(a, b) == IF Falsy(a) THEN b ELSE a

SampleTestJs ==
  <<"s", "a", "m", "p", "l", "e", "-", "t", "e", "s", "t", ".", "j", "s">>

\* the settings resolved from the parsed flags and the environment
resolveConfig(args, env) ==
  LET targetDirectory ==
        Trim(TextOr(args.targetDir,
                    IF env.GROK_TARGET_DIR # NotText
                    THEN Trim(env.GROK_TARGET_DIR) ELSE <<>>))
  IN  [targetFile |->
         TextOr(args.targetFile, TextOr(env.GROK_TARGET_FILE, SampleTestJs)),
       targetDirectory |-> targetDirectory,
       useDirectoryMode |-> Len(targetDirectory) > 0,
       instruction |->
         TextOr(args.instruction,
                TextOr(env.GROK_ADDITIONAL_INSTRUCTION, <<>>)),
       gitWorkdirInput |->
         TextOr(args.gitWorkdir, TextOr(env.GROK_GIT_WORKDIR, <<>>))]

NoConfig == [targetFile |-> NotText, targetDirectory |-> NotText,
             useDirectoryMode |-> FALSE, instruction |-> NotText,
             gitWorkdirInput |-> NotText]

ArgsInit ==
  /\ argv \in SeqsUpTo(Tokens, MaxArgs)
  /\ processEnv \in Envs
  /\ cliArgs = NoArgs
  /\ config = NoConfig
  /\ argsPc = "parse"

ArgsIdle ==
  /\ argv = <<>>
  /\ processEnv = CHOOSE env \in Envs : env.GROK_TARGET_DIR = <<>>
  /\ cliArgs = NoArgs
  /\ config = NoConfig
  /\ argsPc = "idle"

\* const cliArgs = parseCliArgs(process.argv.slice(2))
ArgsParse ==
  /\ argsPc = "parse"
  /\ cliArgs' = parseCliArgs(argv)
  /\ argsPc' = "resolve"
  /\ UNCHANGED <<argv, processEnv, config>>
  /\ UNCHANGED NonArgsVars

\* the constants computed from cliArgs and the environment
ArgsResolve ==
  /\ argsPc = "resolve"
  /\ config' = resolveConfig(cliArgs, processEnv)
  /\ argsPc' = "done"
  /\ UNCHANGED <<argv, processEnv, cliArgs>>
  /\ UNCHANGED NonArgsVars

ArgsNext == ArgsParse \/ ArgsResolve

\* a text that is set and not empty
Given(value) == ~Falsy(value)

\* a text that is set and not blank
GivenNonBlank(value) == value # NotText /\ Trim(value) # <<>>

\* the flag's value, else the environment's, else the default
FlagEnvDefault(flagValue, envValue, default) ==
  IF Given(flagValue) THEN flagValue
  ELSE IF Given(envValue) THEN envValue ELSE default

\* C17: each setting resolves to the flag's value when the flag is supplied,
\* otherwise to the environment variable's value when set, otherwise to the
\* default; directory mode is selected exactly when a target directory is
\* supplied by the flag or, absent the flag, by the environment. A value
\* counts as supplied when it is not empty and, for the target directory,
\* not blank.
C17_FlagThenEnvThenDefault ==
  argsPc = "done" =>
    /\ config.targetFile =
         FlagEnvDefault(cliArgs.targetFile, processEnv.GROK_TARGET_FILE,
                        SampleTestJs)
    /\ config.instruction =
         FlagEnvDefault(cliArgs.instruction,
                        processEnv.GROK_ADDITIONAL_INSTRUCTION, <<>>)
    /\ config.gitWorkdirInput =
         FlagEnvDefault(cliArgs.gitWorkdir, processEnv.GROK_GIT_WORKDIR, <<>>)
    /\ config.useDirectoryMode <=>
         \/ GivenNonBlank(cliArgs.targetDir)
         \/ /\ ~GivenNonBlank(cliArgs.targetDir)
            /\ GivenNonBlank(processEnv.GROK_TARGET_DIR)

\* the three settings other than the target directory follow the order flag,
\* environment, default
C17_OtherSettingsFollowOrder ==
  argsPc = "done" =>
    /\ config.targetFile =
         FlagEnvDefault(cliArgs.targetFile, processEnv.GROK_TARGET_FILE,
                        SampleTestJs)
    /\ config.instruction =
         FlagEnvDefault(cliArgs.instruction,
                        processEnv.GROK_ADDITIONAL_INSTRUCTION, <<>>)
    /\ config.gitWorkdirInput =
         FlagEnvDefault(cliArgs.gitWorkdir, processEnv.GROK_GIT_WORKDIR, <<>>)

\* unless the target directory flag is given a blank value, directory mode
\* is selected exactly when the flag or, without it, the environment
\* supplies a directory
C17_DirectoryModeUnlessBlankFlag ==
  (argsPc = "done"
     /\ ~(Given(cliArgs.targetDir) /\ Trim(cliArgs.targetDir) = <<>>)) =>
    (config.useDirectoryMode <=>
       \/ GivenNonBlank(cliArgs.targetDir)
       \/ GivenNonBlank(processEnv.GROK_TARGET_DIR))

\* a blank target directory flag hides the directory of the environment
C17_BlankFlagHidesEnvironment ==
  /\ argsPc = "done"
  /\ cliArgs.targetDir = <<" ">>
  /\ processEnv.GROK_TARGET_DIR = <<"b">>
  /\ ~config.useDirectoryMode

\* token i of the command line is a recognized flag with an inline value
\* that could also be given as the next token
InlineRecognized(tokens, i) ==
  /\ startsWithDashes(tokens[i])
  /\ IndexOfEquals(tokens[i], 1) # 0
  /\ SettingOf(splitFlag(tokens[i]).flag) # "none"
  /\ ~startsWithDashes(SubSeq(tokens[i], IndexOfEquals(tokens[i], 1) + 1,
                              Len(tokens[i])))

\* the command line with the inline value of token i given as a token of
\* its own: the full text after the first "="
Spaced(tokens, i) ==
  LET first == IndexOfEquals(tokens[i], 1)
  IN  SubSeq(tokens, 1, i - 1)
        \o <<SubSeq(tokens[i], 1, first - 1),
             SubSeq(tokens[i], first + 1, Len(tokens[i]))>>
        \o SubSeq(tokens, i + 1, Len(tokens))

\* C18: a recognized flag given as --flag=value and given as --flag value
\* produce the same settings, the value being the full value text.
C18_InlineSameAsSpaced ==
  argsPc # "parse" =>
    \A i \in 1..Len(argv) :
      InlineRecognized(argv, i) => parseCliArgs(Spaced(argv, i)) = cliArgs

\* the same for inline values with no "=" in them
C18_InlineSameAsSpacedNoEquals ==
  argsPc # "parse" =>
    \A i \in 1..Len(argv) :
      (InlineRecognized(argv, i)
         /\ IndexOfEquals(argv[i], IndexOfEquals(argv[i], 1) + 1) = 0)
        => parseCliArgs(Spaced(argv, i)) = cliArgs

\* the tokens that set a key: a recognized flag that has a value
SettingTokens(tokens) ==
  {i \in 1..Len(tokens) :
     /\ startsWithDashes(tokens[i])
     /\ SettingOf(splitFlag(tokens[i]).flag) # "none"
     /\ \/ IndexOfEquals(tokens[i], 1) # 0
        \/ i + 1 <= Len(tokens) /\ ~startsWithDashes(tokens[i + 1])}

\* C18, remaining parts: with no recognized flag that has a value on the
\* command line (only unrecognized flags, flags with no value and stray
\* tokens), no setting is made
C18_OtherTokensSetNothing ==
  (argsPc # "parse" /\ SettingTokens(argv) = {}) => cliArgs = NoArgs

\* the inline value with an "=" in it is cut at that "="
C18_InlineValueCut ==
  /\ argsPc = "done"
  /\ argv = <<FileFlag \o <<"=", "a", "=", "a">>>>
  /\ cliArgs.targetFile = <<"a">>

\* ------------------------------------------------------- the server process
\* src/server.js

MaxAccepts == 4
MaxRejections == 2

NoExit == -1

ServerInit ==
  /\ serverState = "listening"
  /\ openConnections = {}
  /\ accepted = 0
  /\ rejections = 0
  /\ closeCallbacks = 0
  /\ processState = "running"
  /\ exitCode = NoExit
  /\ exitCause = "none"
  /\ serverLog = <<>>

ServerIdle ==
  /\ serverState = "closed"
  /\ openConnections = {}
  /\ accepted = 0
  /\ rejections = 0
  /\ closeCallbacks = 0
  /\ processState = "idle"
  /\ exitCode = NoExit
  /\ exitCause = "none"
  /\ serverLog = <<>>

\* a client connects to the listening server
ServerAccept ==
  /\ processState = "running"
  /\ serverState = "listening"
  /\ accepted < MaxAccepts
  /\ openConnections' = openConnections \cup {accepted + 1}
  /\ accepted' = accepted + 1
  /\ UNCHANGED <<serverState, rejections, closeCallbacks, processState,
                 exitCode, exitCause, serverLog>>
  /\ UNCHANGED NonServerVars

\* a connection ends: the client, not the server, decides when
ConnectionEnds ==
  /\ processState = "running"
  /\ \E connection \in openConnections :
       openConnections' = openConnections \ {connection}
  /\ UNCHANGED <<serverState, accepted, rejections, closeCallbacks,
                 processState, exitCode, exitCause, serverLog>>
  /\ UNCHANGED NonServerVars

\* process.on('unhandledRejection'): log, then server.close(callback); close
\* stops the listener and keeps the callback for the 'close' event
OnUnhandledRejection ==
  /\ processState = "running"
  /\ rejections < MaxRejections
  /\ rejections' = rejections + 1
  /\ serverState' = "closing"
  /\ closeCallbacks' = closeCallbacks + 1
  /\ serverLog' = Append(serverLog, "close")
  /\ UNCHANGED <<openConnections, accepted, processState, exitCode,
                 exitCause>>
  /\ UNCHANGED NonServerVars

\* the 'close' event of the server, emitted once the listener is stopped and
\* every connection has ended; the callback of server.close then calls
\* process.exit(1)
ServerEmitClose ==
  /\ processState = "running"
  /\ serverState = "closing"
  /\ openConnections = {}
  /\ serverState' = "closed"
  /\ closeCallbacks' = 0
  /\ processState' = "exited"
  /\ exitCode' = 1
  /\ exitCause' = "unhandledRejection"
  /\ serverLog' = serverLog \o <<"closed", "exit">>
  /\ UNCHANGED <<openConnections, accepted, rejections>>
  /\ UNCHANGED NonServerVars

\* process.on('uncaughtException'): log and process.exit(1)
OnUncaughtException ==
  /\ processState = "running"
  /\ processState' = "exited"
  /\ exitCode' = 1
  /\ exitCause' = "uncaughtException"
  /\ serverLog' = Append(serverLog, "exit")
  /\ UNCHANGED <<serverState, openConnections, accepted, rejections,
                 closeCallbacks>>
  /\ UNCHANGED NonServerVars

ServerNext ==
  \/ ServerAccept
  \/ ConnectionEnds
  \/ OnUnhandledRejection
  \/ ServerEmitClose
  \/ OnUncaughtException

\* C19: an unhandled rejection leads to the server being closed first and
\* to an exit with a nonzero code only after the close has completed, and
\* the process does eventually exit; an uncaught exception leads to an
\* immediate exit with a nonzero code and no close of the server.
C19_RejectionClosesThenExits ==
  /\ [](exitCause = "unhandledRejection"
          => serverState = "closed" /\ exitCode # 0 /\ exitCode # NoExit)
  /\ [](exitCause = "uncaughtException"
          => /\ exitCode # 0 /\ exitCode # NoExit
             /\ (rejections = 0 => serverState = "listening"))
  /\ (rejections > 0 ~> processState = "exited")

\* the parts of C19 about the order: the exit of the rejection guard comes
\* after the close has completed, and the exit of the exception guard is
\* taken in the step of the exception with the server left as it is
C19_ExitOnlyAfterClose ==
  /\ [](exitCause = "unhandledRejection"
          => /\ serverState = "closed"
             /\ exitCode = 1
             /\ \E i, j \in 1..Len(serverLog) :
                  /\ i < j
                  /\ serverLog[i] = "close"
                  /\ serverLog[j] = "closed"
                  /\ serverLog[Len(serverLog)] = "exit")
  /\ [][OnUncaughtException
          => /\ processState' = "exited"
             /\ exitCode' = 1
             /\ serverState' = serverState
             /\ closeCallbacks' = closeCallbacks]_vars

\* a rejection was reported and the process exited through the close
C19_ExitedAfterClose ==
  /\ exitCause = "unhandledRejection"
  /\ processState = "exited"
  /\ accepted > 0

\* when every connection ends, the rejection does lead to the exit
C19_ExitsWhenConnectionsEnd == rejections > 0 ~> processState = "exited"

\* ------------------------------------------------------ time of day by hour
\* sample-test.js, getTimeOfDayFromHour

MaxHour == 26

\* the arguments of a call: finite numbers in steps of one half, from
\* -MaxHour to MaxHour, and values that are not finite numbers
HourInputs ==
  [kind : {"number"}, twice : (0 - 2 * MaxHour)..(2 * MaxHour)]
    \cup [kind : {"NaN", "Infinity", "string", "undefined", "null"},
          twice : {0}]

\* Number.isInteger(hour)
NumberIsInteger(hour) == hour.kind = "number" /\ hour.twice % 2 = 0

\* the classification with no test that the hour is an integer
getTimeOfDayFromHourAnyNumber(hour) ==
  IF hour.kind # "number" \/ hour.twice < 0 \/ hour.twice > 2 * 23
  THEN "undefined"
  ELSE IF hour.twice < 2 * 12 THEN "morning"
  ELSE IF hour.twice < 2 * 18 THEN "afternoon"
  ELSE IF hour.twice < 2 * 21 THEN "evening"
  ELSE "night"

getTimeOfDayFromHour(hour) ==
  IF ~NumberIsInteger(hour) \/ hour.twice < 0 \/ hour.twice > 2 * 23
  THEN "undefined"
  ELSE IF hour.twice < 2 * 12 THEN "morning"
  ELSE IF hour.twice < 2 * 18 THEN "afternoon"
  ELSE IF hour.twice < 2 * 21 THEN "evening"
  ELSE "night"

HourInit ==
  /\ hourInput \in HourInputs
  /\ timeOfDay = "not called"
  /\ hourPc = "call"

HourIdle ==
  /\ hourInput = [kind |-> "undefined", twice |-> 0]
  /\ timeOfDay = "not called"
  /\ hourPc = "idle"

HourCall ==
  /\ hourPc = "call"
  /\ timeOfDay' = getTimeOfDayFromHour(hourInput)
  /\ hourPc' = "done"
  /\ UNCHANGED hourInput
  /\ UNCHANGED NonHourVars

HourNext == HourCall

\* the categories and the integer hours of each
CategoryHours ==
  [morning |-> 0..11, afternoon |-> 12..17, evening |-> 18..20,
   night |-> 21..23]

\* the argument is the integer h
IsHour(h) == hourInput.kind = "number" /\ hourInput.twice = 2 * h

\* C20: for every integer hour 0 to 23 the result is exactly one category,
\* morning for 0..11, afternoon for 12..17, evening for 18..20, night for
\* 21..23, with no gaps or overlaps; for every non-integer or out-of-range
\* argument the result is undefined.
C20_HourCategories ==
  hourPc = "done" =>
    /\ \A category \in DOMAIN CategoryHours :
         timeOfDay = category <=> \E h \in CategoryHours[category] : IsHour(h)
    /\ timeOfDay = "undefined" <=> ~\E h \in 0..23 : IsHour(h)
    /\ \A h \in 0..23 :
         Cardinality({c \in DOMAIN CategoryHours : h \in CategoryHours[c]}) = 1

\* C20 witness: the call with 10.5 returned undefined
C20_Witness ==
  /\ hourPc = "done"
  /\ hourInput = [kind |-> "number", twice |-> 21]
  /\ timeOfDay = "undefined"

\* C20 second case reached: the call with 20 returned evening
C20_WitnessEvening ==
  /\ hourPc = "done"
  /\ IsHour(20)
  /\ timeOfDay = "evening"

\* ---------------------------------------------------------------- capitalize
\* sample-test.js, capitalize

MaxNameLen == 3

\* the characters of a name: letters in both cases, the sharp s (a lowercase
\* letter whose uppercase form is two letters), blank, hyphen, apostrophe
NameChars == {"a", "A", "ß", " ", "-", "'"}

Names == SeqsUpTo(NameChars, MaxNameLen)

\* the letters that have two cases, in their lowercase and uppercase forms;
\* a character outside Latin-1 is written by its code point
LowerLetters ==
  <<"a", "b", "c", "d", "e", "f", "g", "h", "i", "j", "k", "l", "m", "n",
    "o", "p", "q", "r", "s", "t", "u", "v", "w", "x", "y", "z", "U+0434">>

UpperLetters ==
  <<"A", "B", "C", "D", "E", "F", "G", "H", "I", "J", "K", "L", "M", "N",
    "O", "P", "Q", "R", "S", "T", "U", "V", "W", "X", "Y", "Z", "U+0414">>

\* the characters that are not letters
NonLetters ==
  {" ", "-", "'", ":", ".", "_", "!", ",",
   "0", "1", "2", "3", "4", "5", "6", "7", "8", "9"}

\* \p{L}
IsLetter(c) == c \notin NonLetters

\* String.prototype.toLowerCase, by character
toLowerCase(s) ==
  [i \in 1..Len(s) |->
     IF \E k \in 1..Len(UpperLetters) : UpperLetters[k] = s[i]
     THEN LowerLetters[CHOOSE k \in 1..Len(UpperLetters) :
                         UpperLetters[k] = s[i]]
     ELSE s[i]]

\* String.prototype.toUpperCase of one character: the sharp s becomes SS
charToUpperCase(c) ==
  IF c = "ß" THEN <<"S", "S">>
  ELSE IF \E k \in 1..Len(LowerLetters) : LowerLetters[k] = c
  THEN <<UpperLetters[CHOOSE k \in 1..Len(LowerLetters) :
                        LowerLetters[k] = c]>>
  ELSE <<c>>

\* replace(/\s+/g, ' '): every run of blanks becomes one blank
RECURSIVE CollapseSpaces(_)
CollapseSpaces(s) ==
  IF Len(s) <= 1 THEN s
  ELSE IF s[1] = " " /\ s[2] = " " THEN CollapseSpaces(Tail(s))
  ELSE <<s[1]>> \o CollapseSpaces(Tail(s))

\* str.split(' ')
RECURSIVE SplitOnSpace(_)
SplitOnSpace(s) ==
  LET blanks == {i \in 1..Len(s) : s[i] = " "}
  IN  IF blanks = {} THEN <<s>>
      ELSE LET first == Min(blanks)
           IN  <<SubSeq(s, 1, first - 1)>>
                 \o SplitOnSpace(SubSeq(s, first + 1, Len(s)))

\* words.join(' ')
RECURSIVE JoinWithSpace(_)
JoinWithSpace(words) ==
  IF Len(words) = 0 THEN <<>>
  ELSE IF Len(words) = 1 THEN words[1]
  ELSE words[1] \o <<" ">> \o JoinWithSpace(Tail(words))

\* replace(/(^\p{L}|['-]\p{L})/gu, char => char.toUpperCase()) from
\* position i on
RECURSIVE TitleFrom(_, _)
TitleFrom(word, i) ==
  IF i > Len(word) THEN <<>>
  ELSE IF i = 1 /\ IsLetter(word[1])
  THEN charToUpperCase(word[1]) \o TitleFrom(word, 2)
  ELSE IF word[i] \in {"'", "-"} /\ i + 1 <= Len(word) /\ IsLetter(word[i + 1])
  THEN <<word[i]>> \o charToUpperCase(word[i + 1]) \o TitleFrom(word, i + 2)
  ELSE <<word[i]>> \o TitleFrom(word, i + 1)

\* capitalize of the current revision
capitalize(str) ==
  IF Falsy(str) THEN <<>>
  ELSE LET words == SplitOnSpace(CollapseSpaces(Trim(str)))
           titleCased == [i \in 1..Len(words) |->
                            TitleFrom(toLowerCase(words[i]), 1)]
       IN  JoinWithSpace(titleCased)

CapInit ==
  /\ capInput \in Names
  /\ capOnce = NotText
  /\ capTwice = NotText
  /\ capPc = "first"

CapIdle ==
  /\ capInput = <<>>
  /\ capOnce = NotText
  /\ capTwice = NotText
  /\ capPc = "idle"

CapFirst ==
  /\ capPc = "first"
  /\ capOnce' = capitalize(capInput)
  /\ capPc' = "second"
  /\ UNCHANGED <<capInput, capTwice>>
  /\ UNCHANGED NonCapVars

CapSecond ==
  /\ capPc = "second"
  /\ capTwice' = capitalize(capOnce)
  /\ capPc' = "done"
  /\ UNCHANGED <<capInput, capOnce>>
  /\ UNCHANGED NonCapVars

CapNext == CapFirst \/ CapSecond

\* C22: capitalize is idempotent: for every string s,
\* capitalize(capitalize(s)) equals capitalize(s).
C22_CapitalizeIdempotent == capPc = "done" => capTwice = capOnce

\* for strings with no letter whose uppercase form is longer than one
\* character, the second call changes nothing
C22_IdempotentOnPlainLetters ==
  (capPc = "done" /\ \A i \in 1..Len(capInput) : capInput[i] # "ß")
    => capTwice = capOnce

\* the sharp s at the start of a word: SS after one call, Ss after two
C22_SharpSChangedTwice ==
  /\ capPc = "done"
  /\ capInput = <<"ß", "a">>
  /\ capOnce = <<"S", "S", "a">>
  /\ capTwice = <<"S", "s", "a">>

\* the plain cases: blanks are trimmed and collapsed, the letter after an
\* apostrophe is raised
C22_PlainCase ==
  /\ capPc = "done"
  /\ capInput = <<"a", "'", "a">>
  /\ capOnce = <<"A", "'", "A">>

\* ------------------------------------------------------- the greeting module
\* sample-test.js, lines 22-313

MaxLanguagesAdded == 1

Morning == <<"m", "o", "r", "n", "i", "n", "g">>
Afternoon == <<"a", "f", "t", "e", "r", "n", "o", "o", "n">>
Evening == <<"e", "v", "e", "n", "i", "n", "g">>
Night == <<"n", "i", "g", "h", "t">>
Default == <<"d", "e", "f", "a", "u", "l", "t">>
Now == <<"n", "o", "w">>
En == <<"e", "n">>
Es == <<"e", "s">>
Nl == <<"n", "l">>
ConstructorKey ==
  <<"c", "o", "n", "s", "t", "r", "u", "c", "t", "o", "r">>
ProtoKey == <<"_", "_", "p", "r", "o", "t", "o", "_", "_">>

\* JavaScript values: undefined, a string constant of the source (text), a
\* string handled by character (chars), a member of the built-in objects,
\* and an object with its own properties and its prototype
Undefined == [kind |-> "undefined"]
Text(text) == [kind |-> "string", text |-> text]
Str(chars) == [kind |-> "string", chars |-> chars]
BuiltIn(name) == [kind |-> "builtin", name |-> name]
ObjectOf(own) ==
  [kind |-> "object", own |-> own, proto |-> BuiltIn("Object.prototype")]

\* a greetings table with the five keys
GreetingTable(morning, afternoon, evening, night, default) ==
  ObjectOf(Morning :> Text(morning) @@ Afternoon :> Text(afternoon)
           @@ Evening :> Text(evening) @@ Night :> Text(night)
           @@ Default :> Text(default))

\* the properties every object inherits from Object.prototype whose names
\* are all lowercase (the lookups of this module lowercase their keys)
ObjectPrototypeKeys == {ConstructorKey, ProtoKey}

\* key in object: own properties and those of the prototype chain
HasProperty(object, key) ==
  \/ key \in DOMAIN object.own
  \/ key \in ObjectPrototypeKeys
  \/ object.proto.kind = "object" /\ key \in DOMAIN object.proto.own

\* value[key]
GetProperty(value, key) ==
  IF value.kind = "object"
  THEN IF key = ProtoKey THEN value.proto
       ELSE IF key \in DOMAIN value.own THEN value.own[key]
       ELSE IF value.proto.kind = "object" /\ key \in DOMAIN value.proto.own
       THEN value.proto.own[key]
       ELSE IF key = ConstructorKey THEN BuiltIn("Object")
       ELSE Undefined
  ELSE IF key = ProtoKey THEN BuiltIn("prototype")
  ELSE IF key = ConstructorKey THEN BuiltIn("constructor")
  ELSE Undefined

\* object[key] = value: the key __proto__ sets the prototype when the value
\* is an object and does nothing otherwise
SetProperty(object, key, value) ==
  IF key = ProtoKey
  THEN IF value.kind = "object" THEN [object EXCEPT !.proto = value]
       ELSE object
  ELSE [object EXCEPT !.own = (key :> value) @@ object.own]

\* a || b
ValueOr(a, b) ==
  IF a = Undefined \/ a = Text("") \/ a = Str(<<>>) THEN b ELSE a

InitialGreetings ==
  <<"e", "n">> :>
    GreetingTable("Good morning",
                  "Good afternoon",
                  "Good evening",
                  "Good night",
                  "Hello") @@
  <<"e", "s">> :>
    GreetingTable("Buenos días",
                  "Buenas tardes",
                  "Buenas noches",
                  "Buenas noches",
                  "Hola") @@
  <<"f", "r">> :>
    GreetingTable("Bonjour",
                  "Bonjour",
                  "Bonsoir",
                  "Bonne nuit",
                  "Salut") @@
  <<"d", "e">> :>
    GreetingTable("Guten Morgen",
                  "Guten Tag",
                  "Guten Abend",
                  "Gute Nacht",
                  "Hallo") @@
  <<"i", "t">> :>
    GreetingTable("Buongiorno",
                  "Buon pomeriggio",
                  "Buonasera",
                  "Buonanotte",
                  "Ciao") @@
  <<"p", "t">> :>
    GreetingTable("Bom dia",
                  "Boa tarde",
                  "Boa noite",
                  "Boa noite",
                  "Olá") @@
  <<"j", "a">> :>
    GreetingTable("U+304AU+306FU+3088U+3046U+3054U+3056U+3044U+307EU+3059",
                  "U+3053U+3093U+306BU+3061U+306F",
                  "U+3053U+3093U+3070U+3093U+306F",
                  "U+304AU+3084U+3059U+307FU+306AU+3055U+3044",
                  "U+3053U+3093U+306BU+3061U+306F") @@
  <<"z", "h">> :>
    GreetingTable("U+65E9U+4E0AU+597D",
                  "U+4E0BU+5348U+597D",
                  "U+665AU+4E0AU+597D",
                  "U+665AU+5B89",
                  "U+4F60U+597D") @@
  <<"r", "u">> :>
    GreetingTable("U+0414U+043EU+0431U+0440U+043EU+0435 U+0443U+0442U+0440U+043E",
                  "U+0414U+043EU+0431U+0440U+044BU+0439 U+0434U+0435U+043DU+044C",
                  "U+0414U+043EU+0431U+0440U+044BU+0439 U+0432U+0435U+0447U+0435U+0440",
                  "U+0414U+043EU+0431U+0440U+043EU+0439 U+043DU+043EU+0447U+0438",
                  "U+041FU+0440U+0438U+0432U+0435U+0442")

InitialDefaultNames ==
  <<"e", "n">> :>
    Str(<<"f", "r", "i", "e", "n", "d">>) @@
  <<"e", "s">> :>
    Str(<<"a", "m", "i", "g", "o">>) @@
  <<"f", "r">> :>
    Str(<<"a", "m", "i">>) @@
  <<"d", "e">> :>
    Str(<<"F", "r", "e", "u", "n", "d">>) @@
  <<"i", "t">> :>
    Str(<<"a", "m", "i", "c", "o">>) @@
  <<"p", "t">> :>
    Str(<<"a", "m", "i", "g", "o">>) @@
  <<"j", "a">> :>
    Str(<<"t", "o", "m", "o", "d", "a", "c", "h", "i">>) @@
  <<"z", "h">> :>
    Str(<<"U+670B", "U+53CB">>) @@
  <<"r", "u">> :>
    Str(<<"U+0434", "U+0440", "U+0443", "U+0433">>)

InitialDefaultGroups ==
  <<"e", "n">> :>
    Str(<<"e", "v", "e", "r", "y", "o", "n", "e">>) @@
  <<"e", "s">> :>
    Str(<<"t", "o", "d", "o", "s">>) @@
  <<"f", "r">> :>
    Str(<<"t", "o", "u", "t", " ", "l", "e", " ", "m", "o", "n", "d", "e">>) @@
  <<"d", "e">> :>
    Str(<<"a", "l", "l", "e">>) @@
  <<"i", "t">> :>
    Str(<<"t", "u", "t", "t", "i">>) @@
  <<"p", "t">> :>
    Str(<<"t", "o", "d", "o", "s">>) @@
  <<"j", "a">> :>
    Str(<<"m", "i", "n", "a", "s", "a", "n">>) @@
  <<"z", "h">> :>
    Str(<<"U+5927", "U+5BB6">>) @@
  <<"r", "u">> :>
    Str(<<"U+0432", "U+0441", "U+0435">>)

\* getEffectiveLang: the lowercased code when it is in greetings, else en
getEffectiveLang(lang) ==
  LET l == IF lang.kind = "string" THEN toLowerCase(lang.chars) ELSE En
  IN  IF HasProperty(greetings, l) THEN l ELSE En

Digits == <<"0", "1", "2", "3", "4", "5", "6", "7", "8", "9">>

IsDigit(c) == \E k \in 1..Len(Digits) : Digits[k] = c

AllDigits(s) == Len(s) > 0 /\ \A i \in 1..Len(s) : IsDigit(s[i])

\* parseInt(digits, 10)
RECURSIVE parseInt(_)
parseInt(s) ==
  IF Len(s) = 0 THEN 0
  ELSE 10 * parseInt(SubSeq(s, 1, Len(s) - 1))
         + (CHOOSE k \in 1..Len(Digits) : Digits[k] = s[Len(s)]) - 1

\* match(/^(\d{1,2})(?::(\d{2}))?$/): hours and minutes of a clock text
MatchClock(text) ==
  LET colons == {i \in 1..Len(text) : text[i] = ":"}
      hours == IF colons = {} THEN text
               ELSE SubSeq(text, 1, Min(colons) - 1)
      minutes == IF colons = {} THEN <<>>
                 ELSE SubSeq(text, Min(colons) + 1, Len(text))
      matched == /\ AllDigits(hours) /\ Len(hours) <= 2
                 /\ colons = {} \/ (AllDigits(minutes) /\ Len(minutes) = 2)
  IN  [matched |-> matched,
       h |-> IF matched THEN parseInt(hours) ELSE 0,
       m |-> IF matched /\ colons # {} THEN parseInt(minutes) ELSE 0]

\* match(/^(\d{1,2})(?::(\d{2}))?\s*(am|pm)$/)
MatchClock12(text) ==
  LET n == Len(text)
      period == IF n >= 2 THEN SubSeq(text, n - 1, n) ELSE <<>>
      clock == IF n >= 2 THEN MatchClock(TrimEnd(SubSeq(text, 1, n - 2)))
               ELSE MatchClock(<<>>)
  IN  [matched |-> period \in {<<"a", "m">>, <<"p", "m">>} /\ clock.matched,
       h |-> clock.h, m |-> clock.m, period |-> period]

\* Number(text) for decimal texts: digits with an optional fraction; every
\* other text of the model is not a number
NumberOf(text) ==
  LET dots == {i \in 1..Len(text) : text[i] = "."}
      whole == IF dots = {} THEN text ELSE SubSeq(text, 1, Min(dots) - 1)
      fraction == IF dots = {} THEN <<>>
                  ELSE SubSeq(text, Min(dots) + 1, Len(text))
      isNumber == /\ AllDigits(whole)
                  /\ \A i \in 1..Len(fraction) : IsDigit(fraction[i])
  IN  [isNaN |-> ~isNumber,
       isInteger |-> isNumber /\ \A i \in 1..Len(fraction) : fraction[i] = "0",
       value |-> IF isNumber THEN parseInt(whole) ELSE 0]

CategoryKeys ==
  [morning |-> Morning, afternoon |-> Afternoon, evening |-> Evening,
   night |-> Night]

\* getTimeOfDayFromHour(h) for an integer h, as a value
CategoryOfHour(h) ==
  LET category == getTimeOfDayFromHour([kind |-> "number", twice |-> 2 * h])
  IN  IF category = "undefined" THEN Undefined
      ELSE Str(CategoryKeys[category])

\* normalizeTimeOfDay; nowHour is new Date().getHours()
normalizeTimeOfDay(tod, nowHour) ==
  IF tod.kind \in {"undefined", "null"} THEN Undefined
  ELSE IF tod.kind \in {"date", "number"}
  THEN LET category == getTimeOfDayFromHour(tod.hour)
       IN  IF category = "undefined" THEN Undefined
           ELSE Str(CategoryKeys[category])
  ELSE IF tod.kind = "string"
  THEN LET trimmed == Trim(tod.chars)
           lower == toLowerCase(trimmed)
           time12Match == MatchClock12(lower)
           timeMatch == MatchClock(lower)
           hour == NumberOf(lower)
       IN  IF trimmed = <<>> THEN Undefined
           ELSE IF lower = Now THEN CategoryOfHour(nowHour)
           ELSE IF /\ time12Match.matched
                   /\ time12Match.h >= 1 /\ time12Match.h <= 12
                   /\ time12Match.m < 60
           THEN CategoryOfHour(
                  IF time12Match.period = <<"p", "m">> /\ time12Match.h < 12
                  THEN time12Match.h + 12
                  ELSE IF time12Match.period = <<"a", "m">>
                          /\ time12Match.h = 12
                  THEN 0 ELSE time12Match.h)
           ELSE IF timeMatch.matched /\ timeMatch.h <= 23 /\ timeMatch.m < 60
           THEN CategoryOfHour(timeMatch.h)
           ELSE IF ~hour.isNaN /\ hour.isInteger /\ hour.value <= 23
           THEN CategoryOfHour(hour.value)
           ELSE Str(lower)
  ELSE Undefined

\* the key a value is looked up under: undefined reads the key 'undefined'
PropertyKey(value) ==
  IF value.kind = "string" THEN value.chars
  ELSE <<"u", "n", "d", "e", "f", "i", "n", "e", "d">>

\* getGreeting
getGreeting(timeArg, lang, nowHour) ==
  LET effective == getEffectiveLang(lang)
      tod == normalizeTimeOfDay(timeArg, nowHour)
      table == GetProperty(greetings, effective)
  IN  ValueOr(GetProperty(table, PropertyKey(tod)),
              GetProperty(table, Default))

\* capitalize applied to a value: a falsy value gives '', a value that is
\* not a string has no trim method
capitalizeValue(value) ==
  IF ValueOr(value, Undefined) = Undefined THEN Str(<<>>)
  ELSE IF value.kind = "string" THEN Str(capitalize(value.chars))
  ELSE [kind |-> "throw", error |-> "TypeError"]

\* the template `${greeting}, ${addressee}!`
Message(greeting, addressee) ==
  [kind |-> "message", greeting |-> greeting, addressee |-> addressee]

\* greet
greet(name, timeArg, lang, nowHour) ==
  LET effectiveLang == getEffectiveLang(lang)
      given == IF name.kind = "undefined" THEN <<"f", "r", "i", "e", "n", "d">>
               ELSE IF name.kind = "string" THEN Trim(name.chars) ELSE <<>>
      finalName == capitalizeValue(
                     IF given = <<>>
                     THEN GetProperty(defaultNames, effectiveLang)
                     ELSE Str(given))
  IN  IF finalName.kind = "throw" THEN finalName
      ELSE Message(getGreeting(timeArg, Str(effectiveLang), nowHour),
                   finalName)

\* the word of the conjunction list format of a locale, with blanks
ConjunctionWords ==
  En :> <<" ", "a", "n", "d", " ">> @@ Es :> <<" ", "y", " ">>
    @@ Nl :> <<" ", "e", "n", " ">>

\* the locales whose list format puts a comma before the conjunction
SerialCommaLocales == {En}

\* the list format that puts a comma before the conjunction in every locale
RECURSIVE ListFormatSerialComma(_, _)
ListFormatSerialComma(locale, list) ==
  IF Len(list) = 1 THEN list[1]
  ELSE IF Len(list) = 2
  THEN list[1] \o ConjunctionWords[locale] \o list[2]
  ELSE IF Len(list) = 3
  THEN list[1] \o <<",", " ">> \o list[2] \o <<",">>
         \o ConjunctionWords[locale] \o list[3]
  ELSE list[1] \o <<",", " ">> \o ListFormatSerialComma(locale, Tail(list))

\* new Intl.ListFormat(locale, {style: 'long', type: 'conjunction'})
\* .format(list), for the locales en, es and nl and names that do not call
\* for another form of the conjunction word
RECURSIVE ListFormat(_, _)
ListFormat(locale, list) ==
  IF Len(list) = 1 THEN list[1]
  ELSE IF Len(list) = 2
  THEN list[1] \o ConjunctionWords[locale] \o list[2]
  ELSE IF Len(list) = 3
  THEN list[1] \o <<",", " ">> \o list[2]
         \o (IF locale \in SerialCommaLocales THEN <<",">> ELSE <<>>)
         \o ConjunctionWords[locale] \o list[3]
  ELSE list[1] \o <<",", " ">> \o ListFormat(locale, Tail(list))

\* names.filter(string).map(trim).filter(non-empty).map(capitalize)
validNames(names) ==
  LET strings == SelectSeq(names, LAMBDA n : n.kind = "string")
      trimmed == [i \in 1..Len(strings) |-> Trim(strings[i].chars)]
      nonEmpty == SelectSeq(trimmed, LAMBDA n : Len(n) > 0)
  IN  [i \in 1..Len(nonEmpty) |-> capitalize(nonEmpty[i])]

\* greetMultiple; a code that is no language tag makes the constructor of
\* the list format throw
greetMultiple(names, timeArg, lang, nowHour) ==
  LET effectiveLang == getEffectiveLang(lang)
      greeting == getGreeting(timeArg, Str(effectiveLang), nowHour)
      valid == validNames(names)
  IN  IF Len(valid) = 0
      THEN Message(greeting, GetProperty(defaultGroups, effectiveLang))
      ELSE IF effectiveLang \in ObjectPrototypeKeys
      THEN [kind |-> "throw", error |-> "RangeError"]
      ELSE Message(greeting, Str(ListFormat(effectiveLang, valid)))

\* the older revision: capitalize raises the first character only
capitalizeOld(str) ==
  IF Len(str) = 0 THEN <<>> ELSE charToUpperCase(str[1]) \o Tail(str)

\* the older revision: getGreeting for a time of day that is a text or absent
getGreetingOld(timeArg) ==
  LET key == IF timeArg.kind = "string" THEN toLowerCase(timeArg.chars)
             ELSE <<>>
      table == InitialGreetings[En].own
  IN  IF key \in {Morning, Afternoon, Evening, Night} THEN table[key]
      ELSE IF key \in ObjectPrototypeKeys THEN BuiltIn("Object")
      ELSE Text("Hello")

\* the older revision of greetMultiple
greetMultipleOld(names, timeArg) ==
  LET strings == SelectSeq(names, LAMBDA n : n.kind = "string")
      trimmed == [i \in 1..Len(strings) |-> Trim(strings[i].chars)]
      nonEmpty == SelectSeq(trimmed, LAMBDA n : Len(n) > 0)
      valid == [i \in 1..Len(nonEmpty) |-> capitalizeOld(nonEmpty[i])]
  IN  IF Len(valid) = 0
      THEN Message(getGreetingOld(timeArg),
                   Str(<<"e", "v", "e", "r", "y", "o", "n", "e">>))
      ELSE Message(getGreetingOld(timeArg),
                   Str(ListFormatSerialComma(En, valid)))

MaxNames == 3

\* the entries of a list of names
NameItems ==
  { [kind |-> "number"], Str(<<" ">>), Str(<<"a">>),
    Str(<<" ", "b", "O", "b", " ">>) }

NameLists == SeqsUpTo(NameItems, MaxNames)

\* the name arguments of greet
NameArgs ==
  { Undefined, [kind |-> "number"], Str(<<>>), Str(<<" ">>),
    Str(<<" ", "b", "O", "b", " ">>) }

\* the language codes and times of day of the calls of greet and
\* greetMultiple
ListLangArgs ==
  { Undefined, Str(En), Str(<<"E", "S">>), Str(<<"N", "L">>),
    Str(<<"x", "x">>), Str(ProtoKey) }

ListTodArgs == { Undefined, Str(Evening) }

\* the language codes of a call
LangArgs ==
  { Undefined, [kind |-> "number"], Str(En), Str(<<"E", "N">>), Str(Es),
    Str(<<"x", "x">>), Str(Nl), Str(<<"N", "L">>), Str(ConstructorKey),
    Str(ProtoKey) }

HourOf(h) == [kind |-> "number", twice |-> 2 * h]

\* the time-of-day arguments of a call
TodArgs ==
  { Undefined, [kind |-> "null"], [kind |-> "boolean"],
    [kind |-> "number", hour |-> HourOf(10)],
    [kind |-> "number", hour |-> HourOf(25)],
    [kind |-> "number", hour |-> [kind |-> "number", twice |-> 21]],
    [kind |-> "date", hour |-> HourOf(15)],
    [kind |-> "date", hour |-> [kind |-> "NaN", twice |-> 0]],
    Str(Morning), Str(<<" ", "M", "o", "r", "n", "i", "n", "g", " ">>),
    Str(Night), Str(<<"n", "o", "o", "n">>), Str(Default),
    Str(ConstructorKey), Str(<<>>), Str(<<" ">>), Str(<<"N", "o", "w", " ">>),
    Str(<<"1", "9">>), Str(<<"2", "5">>), Str(<<"0", "0", "7">>),
    Str(<<"1", "0", ".", "5">>), Str(<<"2", "2", ":", "1", "5">>),
    Str(<<"1", "0", ":", "6", "0">>), Str(<<"3", " ", "P", "M">>),
    Str(<<"1", "2", ":", "0", "0", " ", "a", "m">>),
    Str(<<"1", "3", ":", "0", "0", " ", "a", "m">>) }

\* the hours the clock may show when 'now' is asked for
ClockHours == {0, 12, 18, 21}

\* the arguments of addLanguage
AddLangArgs ==
  { [kind |-> "number"], Str(<<>>), Str(<<" ">>), Str(Nl), Str(<<"N", "L">>),
    Str(<<"E", "S">>), Str(ProtoKey) }

GreetsArgs ==
  { Undefined, [kind |-> "null"], Text("Hoi"), ObjectOf(<<>>),
    ObjectOf(Morning :> Text("Goedemorgen")),
    ObjectOf(Default :> Text("Hallo")),
    GreetingTable("Goedemorgen", "Goedemiddag", "Goedenavond", "Goedenacht",
                  "Hallo") }

Vriend == <<"v", "r", "i", "e", "n", "d">>
Iedereen == <<"i", "e", "d", "e", "r", "e", "e", "n">>

NoGreetCall == [op |-> "none"]

Threw(error) == [kind |-> "throw", error |-> error]

GreetInit ==
  /\ greetings = ObjectOf(InitialGreetings)
  /\ defaultNames = ObjectOf(InitialDefaultNames)
  /\ defaultGroups = ObjectOf(InitialDefaultGroups)
  /\ languagesAdded = 0
  /\ greetCall = NoGreetCall
  /\ greetResult = Undefined

GreetIdle ==
  /\ greetings = ObjectOf(<<>>)
  /\ defaultNames = ObjectOf(<<>>)
  /\ defaultGroups = ObjectOf(<<>>)
  /\ languagesAdded = 0
  /\ greetCall = [op |-> "idle"]
  /\ greetResult = Undefined

\* the lookups end a run; addLanguage may come before them, and an error it
\* throws ends the run
CanCall ==
  greetCall.op \in {"none", "addLanguage"} /\ greetResult.kind # "throw"

\* addLanguage(lang, greets, defName, defGroup)
AddLanguage ==
  /\ CanCall
  /\ languagesAdded < MaxLanguagesAdded
  /\ languagesAdded' = languagesAdded + 1
  /\ \E lang \in AddLangArgs, greets \in GreetsArgs :
       /\ greetCall' = [op |-> "addLanguage", lang |-> lang, greets |-> greets]
       /\ IF lang.kind # "string" \/ Len(Trim(lang.chars)) = 0
          THEN /\ greetResult' = Threw("Invalid language code")
               /\ UNCHANGED <<greetings, defaultNames, defaultGroups>>
          ELSE IF ~(greets.kind = "object" /\ HasProperty(greets, Default))
          THEN /\ greetResult' = Threw("Invalid greetings object")
               /\ UNCHANGED <<greetings, defaultNames, defaultGroups>>
          ELSE LET lowerLang == toLowerCase(lang.chars)
               IN  /\ greetings' = SetProperty(greetings, lowerLang, greets)
                   /\ defaultNames' =
                        SetProperty(defaultNames, lowerLang, Str(Vriend))
                   /\ defaultGroups' =
                        SetProperty(defaultGroups, lowerLang, Str(Iedereen))
                   /\ greetResult' = Undefined
  /\ UNCHANGED NonGreetVars

\* getGreeting(timeOfDay, lang)
GetGreeting ==
  /\ CanCall
  /\ \E timeArg \in TodArgs, lang \in LangArgs, nowHour \in ClockHours :
       /\ greetCall' = [op |-> "getGreeting", timeOfDay |-> timeArg,
                        lang |-> lang, nowHour |-> nowHour]
       /\ greetResult' = getGreeting(timeArg, lang, nowHour)
  /\ UNCHANGED <<greetings, defaultNames, defaultGroups, languagesAdded>>
  /\ UNCHANGED NonGreetVars

\* greet(name, timeOfDay, lang)
Greet ==
  /\ CanCall
  /\ \E name \in NameArgs, timeArg \in ListTodArgs, lang \in ListLangArgs :
       /\ greetCall' = [op |-> "greet", name |-> name, timeOfDay |-> timeArg,
                        lang |-> lang]
       /\ greetResult' = greet(name, timeArg, lang, 0)
  /\ UNCHANGED <<greetings, defaultNames, defaultGroups, languagesAdded>>
  /\ UNCHANGED NonGreetVars

\* greetMultiple(names, timeOfDay, lang)
GreetMultiple ==
  /\ CanCall
  /\ \E names \in NameLists, timeArg \in ListTodArgs, lang \in ListLangArgs :
       /\ greetCall' = [op |-> "greetMultiple", names |-> names,
                        timeOfDay |-> timeArg, lang |-> lang,
                        revision |-> "current"]
       /\ greetResult' = greetMultiple(names, timeArg, lang, 0)
  /\ UNCHANGED <<greetings, defaultNames, defaultGroups, languagesAdded>>
  /\ UNCHANGED NonGreetVars

\* greetMultiple(names, timeOfDay) of the older revision
GreetMultipleOld ==
  /\ greetCall.op = "none"
  /\ \E names \in NameLists, timeArg \in ListTodArgs :
       /\ greetCall' = [op |-> "greetMultiple", names |-> names,
                        timeOfDay |-> timeArg, lang |-> Undefined,
                        revision |-> "older"]
       /\ greetResult' = greetMultipleOld(names, timeArg)
  /\ UNCHANGED <<greetings, defaultNames, defaultGroups, languagesAdded>>
  /\ UNCHANGED NonGreetVars

GreetNext ==
  AddLanguage \/ GetGreeting \/ Greet \/ GreetMultiple \/ GreetMultipleOld

\* a greeting table is registered for the code
Registered(code) ==
  code \in DOMAIN greetings.own /\ greetings.own[code].kind = "object"

\* the effective language of a call as described: the lowercased code when
\* a table is registered for it, otherwise en
DescribedLang(lang) ==
  IF lang.kind = "string" /\ Registered(toLowerCase(lang.chars))
  THEN toLowerCase(lang.chars) ELSE En

\* the entry of the table for the normalized category: the category's own
\* entry for one of the four categories, the default entry otherwise
DescribedEntry(table, tod) ==
  IF /\ tod.kind = "string"
     /\ tod.chars \in {Morning, Afternoon, Evening, Night}
     /\ tod.chars \in DOMAIN table.own
     /\ table.own[tod.chars] # Text("")
  THEN table.own[tod.chars]
  ELSE table.own[Default]

\* C21: getGreeting returns an entry of the effective language's table (the
\* lowercased code when a table is registered for it, otherwise en): the
\* entry of the normalized category when it is one of the four categories,
\* the default entry when it is absent or any other text.
C21_GreetingFromEffectiveTable ==
  greetCall.op = "getGreeting" =>
    greetResult =
      DescribedEntry(greetings.own[DescribedLang(greetCall.lang)],
                     normalizeTimeOfDay(greetCall.timeOfDay,
                                        greetCall.nowHour))

\* the key names a property inherited from Object.prototype
InheritedKey(value) ==
  value.kind = "string"
    /\ toLowerCase(Trim(value.chars)) \in ObjectPrototypeKeys

\* the description holds for the calls whose language code and time of day
\* name no inherited property, as long as no table was made the prototype
\* of the greetings object
C21_HoldsForOwnKeys ==
  (/\ greetCall.op = "getGreeting"
   /\ ~InheritedKey(greetCall.lang)
   /\ ~InheritedKey(greetCall.timeOfDay)
   /\ greetings.proto.kind = "builtin")
    => greetResult =
         DescribedEntry(greetings.own[DescribedLang(greetCall.lang)],
                        normalizeTimeOfDay(greetCall.timeOfDay,
                                           greetCall.nowHour))

\* getGreeting('morning', 'constructor') returned undefined
C21_InheritedLanguage ==
  /\ greetCall.op = "getGreeting"
  /\ greetCall.lang = Str(ConstructorKey)
  /\ greetCall.timeOfDay = Str(Morning)
  /\ greetResult = Undefined

\* an added language is looked up in another letter case
C21_AddedLanguageFound ==
  /\ greetCall.op = "getGreeting"
  /\ greetCall.lang = Str(<<"N", "L">>)
  /\ greetCall.timeOfDay = Str(<<"3", " ", "P", "M">>)
  /\ greetResult = Text("Goedemiddag")

\* the text entries of the list that are not blank, trimmed, in their order
KeptNames(names) ==
  LET kept == SelectSeq(names,
                LAMBDA n : n.kind = "string" /\ Trim(n.chars) # <<>>)
  IN  [i \in 1..Len(kept) |-> Trim(kept[i].chars)]

\* the names joined as described: bare, with the conjunction word, or with
\* commas and the conjunction word before the last name, after a comma
\* when serialComma holds
RECURSIVE JoinedPrefix(_, _)
JoinedPrefix(list, n) ==
  IF n = 0 THEN <<>>
  ELSE IF n = 1 THEN list[1]
  ELSE JoinedPrefix(list, n - 1) \o <<",", " ">> \o list[n]

DescribedList(list, word, serialComma) ==
  IF Len(list) = 1 THEN list[1]
  ELSE IF Len(list) = 2 THEN list[1] \o word \o list[2]
  ELSE JoinedPrefix(list, Len(list) - 1)
         \o (IF serialComma THEN <<",">> ELSE <<>>) \o word
         \o list[Len(list)]

\* what greetMultiple returned is as described, with the comma before the
\* conjunction as serialComma tells for the call's language; the calls are
\* those whose language code names no inherited property
GreetMultipleAsDescribed(serialComma(_)) ==
  (greetCall.op = "greetMultiple" /\ ~InheritedKey(greetCall.lang)) =>
    LET older == greetCall.revision = "older"
        language == IF older THEN En ELSE DescribedLang(greetCall.lang)
        kept == KeptNames(greetCall.names)
        names == [i \in 1..Len(kept) |->
                    IF older THEN capitalizeOld(kept[i])
                    ELSE capitalize(kept[i])]
    IN  /\ greetResult.kind = "message"
        /\ greetResult.addressee =
             IF Len(names) = 0
             THEN (IF older THEN Str(<<"e", "v", "e", "r", "y", "o", "n", "e">>)
                   ELSE defaultGroups.own[language])
             ELSE Str(DescribedList(names, ConjunctionWords[language],
                                    serialComma(language)))

AlwaysSerialComma(language) == TRUE

EnglishSerialComma(language) == language = En

C23_WitnessOlder ==
  /\ greetCall.op = "greetMultiple"
  /\ greetCall.revision = "older"
  /\ greetCall.names = <<[kind |-> "number"], Str(<<" ", "b", "O", "b", " ">>),
                         Str(<<" ">>)>>
  /\ greetResult.addressee = Str(<<"B", "O", "b">>)

\* the arguments of a call of addLanguage pass its two checks
ValidAdd(call) ==
  /\ call.lang.kind = "string"
  /\ Trim(call.lang.chars) # <<>>
  /\ call.greets.kind = "object"
  /\ Default \in DOMAIN call.greets.own

\* the table a valid addLanguage installed under the code, if any: the own
\* entry of greetings that the initial tables do not have
AddedUnder(code) ==
  /\ code \in DOMAIN greetings.own
  /\ code \in DOMAIN InitialGreetings => greetings.own[code] # InitialGreetings[code]

\* the last call is a lookup that asks, in any letter case, for a language
\* that a valid addLanguage installed
LooksUpAdded ==
  /\ greetCall.op \in {"getGreeting", "greet", "greetMultiple"}
  /\ greetCall.lang.kind = "string"
  /\ AddedUnder(toLowerCase(greetCall.lang.chars))

\* greet was called with no name to use: omitted, blank or not a text
NoNameGiven ==
  greetCall.name.kind # "string" \/ Trim(greetCall.name.chars) = <<>>

\* the lookups after a valid addLanguage return what was registered
LookupsUseRegistered(noName) ==
  LooksUpAdded =>
    /\ greetCall.op = "getGreeting" =>
         greetResult =
           DescribedEntry(greetings.own[toLowerCase(greetCall.lang.chars)],
                          normalizeTimeOfDay(greetCall.timeOfDay,
                                             greetCall.nowHour))
    /\ (greetCall.op = "greet" /\ noName) =>
         /\ greetResult.kind = "message"
         /\ greetResult.addressee = Str(capitalize(Vriend))
    /\ (greetCall.op = "greetMultiple" /\ KeptNames(greetCall.names) = <<>>) =>
         /\ greetResult.kind = "message"
         /\ greetResult.addressee = Str(Iedereen)

\* addLanguage throws exactly for arguments that fail its checks, then with
\* the three tables unchanged, and otherwise installs the entries under the
\* lowercased code
AddLanguageStepAsDescribed ==
  IF ~ValidAdd(greetCall')
  THEN /\ greetResult'.kind = "throw"
       /\ UNCHANGED <<greetings, defaultNames, defaultGroups>>
  ELSE LET lowerLang == toLowerCase(greetCall'.lang.chars)
       IN  /\ greetResult'.kind # "throw"
           /\ lowerLang \in DOMAIN greetings'.own
           /\ greetings'.own[lowerLang] = greetCall'.greets
           /\ lowerLang \in DOMAIN defaultNames'.own
           /\ defaultNames'.own[lowerLang] = Str(Vriend)
           /\ lowerLang \in DOMAIN defaultGroups'.own
           /\ defaultGroups'.own[lowerLang] = Str(Iedereen)

AddLanguageChecksAndInstalls ==
  [][languagesAdded' # languagesAdded => AddLanguageStepAsDescribed]_vars

\* C24: addLanguage raises an error for a code that is not text or is blank
\* and for a table with no 'default' key, leaving the three tables
\* unchanged; for valid arguments it installs the entries under the
\* lowercased code, after which greeting lookups for that language in any
\* letter case return the registered strings and greet and greetMultiple
\* use the registered default name and group.
C24_AddLanguage ==
  AddLanguageChecksAndInstalls /\ [](LookupsUseRegistered(NoNameGiven))

\* the same for codes other than __proto__, for times of day that name no
\* inherited property, and for greet called with a name argument that is
\* blank or not a text (not with the name left out)
C24_HoldsForOwnCodesAndBlankNames ==
  /\ [][(languagesAdded' # languagesAdded /\ greetCall'.lang # Str(ProtoKey))
          => AddLanguageStepAsDescribed]_vars
  /\ []((/\ LooksUpAdded
         /\ greetings.proto.kind = "builtin"
         /\ greetCall.op = "getGreeting" => ~InheritedKey(greetCall.timeOfDay))
          => LookupsUseRegistered(NoNameGiven
                                    /\ greetCall.name.kind # "undefined"))

\* after addLanguage('NL', ...), greet(undefined, ..., 'NL') greets Friend
C24_OmittedNameNotRegisteredDefault ==
  /\ greetCall.op = "greet"
  /\ LooksUpAdded
  /\ greetCall.lang = Str(<<"N", "L">>)
  /\ greetCall.name = Undefined
  /\ greetResult.kind = "message"
  /\ greetResult.greeting = Text("Hallo")
  /\ greetResult.addressee = Str(<<"F", "r", "i", "e", "n", "d">>)

\* after addLanguage('nl', ...), greet('', ..., 'NL') greets Vriend
C24_BlankNameRegisteredDefault ==
  /\ greetCall.op = "greet"
  /\ LooksUpAdded
  /\ greetCall.name = Str(<<>>)
  /\ greetResult.kind = "message"
  /\ greetResult.addressee = Str(<<"V", "r", "i", "e", "n", "d">>)

\* ------------------------------------------------ claims about collectJsFiles
\* the paths below the start directory, one or two names deep
PathsBelow(start) ==
  {start \o names : names \in SeqsUpTo(EntryNames, 2) \ {<<>>}}

\* the entry at the path is of the kind, as its directory lists it
EntryIs(path, kind) ==
  LET dir == SubSeq(path, 1, Len(path) - 1)
      name == path[Len(path)]
  IN  name \in readdir(dir) /\ direntKind(dir, name) = kind

\* the regular files with an allowed extension that are reached from the
\* start directory through subdirectories that are neither symbolic links
\* nor named in IGNORED_DIRECTORIES
DescribedFiles(start) ==
  {path \in PathsBelow(start) :
     /\ EntryIs(path, "file")
     /\ extname(path[Len(path)]) \in allowedExtensions
     /\ \A n \in (Len(start) + 1)..(Len(path) - 1) :
          /\ EntryIs(SubSeq(path, 1, n), "dir")
          /\ path[n] \notin IGNORED_DIRECTORIES}

\* the outermost call of collectJsFiles has returned
Collected ==
  /\ resolvedDirectory \in DOMAIN calls
  /\ calls[resolvedDirectory].state = "returned"

\* C25: under every interleaving of its concurrent directory reads,
\* collectJsFiles returns the same set of files, each exactly once: the
\* regular files with an allowed extension reachable from the start
\* directory without passing through a symbolic link or an ignored
\* subdirectory; the handler answers 400 when that set is empty.
C25_SameFilesUnderEveryInterleaving ==
  Collected =>
    /\ {jsFiles[i] : i \in 1..Len(jsFiles)} = DescribedFiles(resolvedDirectory)
    /\ \A i, j \in 1..Len(jsFiles) : jsFiles[i] = jsFiles[j] => i = j
    /\ DescribedFiles(resolvedDirectory) = {}
         => dirPc = "done" /\ dirResult = Response("error", 400)
    /\ (DescribedFiles(resolvedDirectory) # {} /\ dirPc = "read")
         => dirResult = NoResponse

\* C25 witness: the call for lib returned before the call for sub
C25_Witness ==
  /\ Collected
  /\ jsFiles = << <<"repo", "f">>, <<"repo", "lib", "f">>,
                  <<"repo", "sub", "f">> >>
  /\ fsKind[<<"repo", "node_modules", "f">>] = "file"

\* C25 second case reached: the call for sub returned before the call for lib
C25_WitnessOtherOrder ==
  /\ Collected
  /\ jsFiles = << <<"repo", "f">>, <<"repo", "sub", "f">>,
                  <<"repo", "lib", "f">> >>

\* C25 third case reached: only a symbolic link and an ignored directory
\* hold files, and the request is answered with 400
C25_WitnessEmpty ==
  /\ Collected
  /\ resolvedDirectory = PROJECT_ROOT
  /\ fsKind[<<"repo", "f">>] = "link"
  /\ fsKind[<<"repo", "node_modules", "f">>] = "file"
  /\ jsFiles = <<>>
  /\ dirResult = Response("error", 400)

\* ------------------------------------- claims about concurrent initClient
\* the record is a client that some call has constructed and returned
FullyConstructed(client) ==
  /\ client.apiKey \in ClientKeys
  /\ client.id \in 1..clientsBuilt
  /\ \E i \in 1..MaxCalls :
       /\ ClientDone(i)
       /\ clientCalls[i].constructed
       /\ clientCalls[i].result = client

\* C26: for every interleaving of concurrent initClient calls, with equal or
\* different keys, each call returns a client whose apiKey is the key the
\* call was given, and the cache is at every moment empty or one fully
\* constructed client; concurrent first calls with the same key may each
\* construct a client.
C26_ConcurrentCallsGetTheirKey ==
  /\ \A i \in 1..Len(clientCalls) :
       ClientDone(i) =>
         /\ clientCalls[i].result # NoClient
         /\ clientCalls[i].result.apiKey = clientCalls[i].key
  /\ cachedClient = NoClient \/ FullyConstructed(cachedClient)

\* C26 witness: two concurrent first calls with the same key each
\* constructed a client, and a third call with the other key, started while
\* the cache was empty, returned a client of its own key
C26_Witness ==
  /\ clientMode = "concurrent"
  /\ \A i \in 1..3 : ClientDone(i) /\ clientCalls[i].before = NoClient
  /\ clientCalls[1].key = clientCalls[2].key
  /\ clientCalls[1].constructed /\ clientCalls[2].constructed
  /\ clientCalls[1].result # clientCalls[2].result
  /\ clientCalls[3].key # clientCalls[1].key
  /\ clientCalls[3].result.apiKey = clientCalls[3].key

\* C26 second case reached: a call started with the cache holding a client
\* of another key while a call of that key was still importing
C26_WitnessFilledCache ==
  /\ clientMode = "concurrent"
  /\ \E i, j \in 1..MaxCalls :
       /\ ClientDone(i) /\ ClientDone(j)
       /\ clientCalls[i].before # NoClient
       /\ clientCalls[i].before.apiKey # clientCalls[i].key
       /\ clientCalls[j].before = NoClient
       /\ clientCalls[j].result.id > clientCalls[i].result.id
       /\ cachedClient = clientCalls[j].result

\* ------------------------------------- claims about the CLI directory flow
\* C27: in the CLI directory flow, for every file entry the endpoint returns
\* (relative, absolute, or with '..' segments), a directory or a file is
\* created or written only inside the repository root, and an entry whose
\* path resolves outside the root makes the run throw without being written.
C27_EntriesWrittenInsideRepoRoot ==
  cliMode = "directory" =>
    \A loc \in fileWrites : Inside(loc, repoRoot)

\* the same for the entries whose resolved path has no '..' segment left
C27_HoldsWithoutParentSegments ==
  cliMode = "directory" =>
    \A path \in writtenPaths :
      (\A i \in 1..Len(path) : path[i] # "..")
        => Inside(Normalize(path), repoRoot)

\* the entry /repo/../f was written, at the location /f
C27_AbsoluteEntryWrittenOutside ==
  /\ cliMode = "directory"
  /\ <<"repo", "..", "f">> \in writtenPaths
  /\ <<"f">> \in fileWrites

\* a first entry that resolvePathInRepo rejects made the run throw with
\* nothing written
C27_RelativeEntryRejected ==
  /\ cliMode = "directory"
  /\ cliPc = "exit1"
  /\ filesLeft > 0
  /\ fileWrites = {}
  /\ cliLog = <<<<"http", TRUE>>>>

\* ------------------------------- claims about the target of /api/repo/modify
\* the handler has read the target file
TargetRead == originalCode # NotText

\* C28: in POST /api/repo/modify, for every targetFile value, one with '..'
\* segments included, the file that is read, overwritten and staged is
\* located inside the resolved repository path.
C28_TargetInsideRepoPath ==
  TargetRead => StartsWithDir(filePath, baseRepoPath)

\* the same for the targetFile values without '..' segments
C28_HoldsWithoutParentSegments ==
  (TargetRead /\ \A i \in 1..Len(relativeFilePath.segs) :
                   relativeFilePath.segs[i] # "..")
    => StartsWithDir(filePath, baseRepoPath)

\* targetFile '../f' with the repository /repo: the file /f was read,
\* overwritten and staged
C28_FileBesideRepositoryModified ==
  /\ relativeFilePath = [abs |-> FALSE, segs |-> <<"..", "f">>]
  /\ baseRepoPath = <<"repo">>
  /\ filePath = <<"f">>
  /\ TargetRead
  /\ \E i, j \in 1..Len(repoLog) :
       repoLog[i] = <<"write", TRUE>> /\ repoLog[j] = <<"add", TRUE>>

\* --------------------------- claims about the end of the single-file flow
\* some step of the run failed: a path was rejected, the file could not be
\* read, the request failed or returned no usable code, or a step of the
\* log did not succeed or could not tell
StepFailed ==
  \/ \E i \in 1..Len(cliLog) :
       cliLog[i][1] \in {"read", "http", "write", "add", "commit", "push"}
         /\ ~cliLog[i][2]
  \/ cliPc = "exit1" /\ ~Ran("push")

\* the write, the diff probe, git add, git commit and git push all succeeded
AllStepsSucceeded ==
  \A step \in {"write", "diff", "add", "commit", "push"} :
    \E i \in 1..Len(cliLog) : cliLog[i] = <<step, TRUE>>

\* C29: in the extended single-file flow a run whose write, diff probe, git
\* add, git commit and git push all succeeded ends without a thrown error,
\* so the process does not exit with a nonzero status; a nonzero exit
\* happens only when some step of the flow failed.
C29_SuccessfulRunExitsZero ==
  (cliMode = "single" /\ cliPc = "exit1") =>
    ~AllStepsSucceeded /\ StepFailed

\* the same for the basic revision and for the directory flow, whose closing
\* messages name variables that exist
C29_HoldsInOtherFlows ==
  (cliMode \in {"basic", "directory"} /\ cliPc = "exit1")
    => ~AllStepsSucceeded

\* a single-file run pushed its commit and exited with a nonzero status
C29_PushedThenNonzeroExit ==
  /\ cliMode = "single"
  /\ AllStepsSucceeded
  /\ gitRemote = "pushed"
  /\ cliPc = "exit1"

\* ------------------------------------------------------- the server's startup
\* the variables of the environment that the startup reads
EnvNames == {"OPENAI_API_KEY", "PORT"}

\* the values a variable may have: not set, empty, or a text
EnvValues == {NotText, <<>>, <<"a">>, <<"b">>}

\* the number 3000 of process.env.PORT || 3000, by its digits
DefaultPort == <<"3000">>

\* nothing was read or bound yet
NotRead == <<"?">>

\* require('dotenv').config(): every entry of the file whose name is not
\* set in process.env is added to it; the variables already set are kept
dotenvConfig(env, file) ==
  [name \in EnvNames |-> IF env[name] = NotText THEN file[name] ELSE env[name]]

\* a || b
PortOr(value, default) == IF Falsy(value) THEN default ELSE value

BootInit ==
  /\ startEnv \in [EnvNames -> EnvValues]
  /\ envFile \in [EnvNames -> EnvValues]
  /\ serverEnv = startEnv
  /\ openaiApiKey = NotRead
  /\ PORT = NotRead
  /\ listeningOn = NotRead
  /\ bootPc = "requireApp"

BootIdle ==
  /\ startEnv = [name \in EnvNames |-> NotText]
  /\ envFile = [name \in EnvNames |-> NotText]
  /\ serverEnv = [name \in EnvNames |-> NotText]
  /\ openaiApiKey = NotRead
  /\ PORT = NotRead
  /\ listeningOn = NotRead
  /\ bootPc = "idle"

\* require('./app'): app.js loads the routes, the routes the controllers,
\* the code controller the code service, whose module body builds the
\* OpenAI configuration from process.env.OPENAI_API_KEY
BootRequireApp ==
  /\ bootPc = "requireApp"
  /\ openaiApiKey' = serverEnv["OPENAI_API_KEY"]
  /\ bootPc' = "dotenv"
  /\ UNCHANGED <<startEnv, envFile, serverEnv, PORT, listeningOn>>
  /\ UNCHANGED NonBootVars

\* require('dotenv').config()
BootLoadEnvFile ==
  /\ bootPc = "dotenv"
  /\ serverEnv' = dotenvConfig(serverEnv, envFile)
  /\ bootPc' = "port"
  /\ UNCHANGED <<startEnv, envFile, openaiApiKey, PORT, listeningOn>>
  /\ UNCHANGED NonBootVars

\* const PORT = process.env.PORT || 3000
BootReadPort ==
  /\ bootPc = "port"
  /\ PORT' = PortOr(serverEnv["PORT"], DefaultPort)
  /\ bootPc' = "listen"
  /\ UNCHANGED <<startEnv, envFile, serverEnv, openaiApiKey, listeningOn>>
  /\ UNCHANGED NonBootVars

\* app.listen(PORT, ...)
BootListen ==
  /\ bootPc = "listen"
  /\ listeningOn' = PORT
  /\ bootPc' = "listening"
  /\ UNCHANGED <<startEnv, envFile, serverEnv, openaiApiKey, PORT>>
  /\ UNCHANGED NonBootVars

BootNext ==
  \/ BootRequireApp
  \/ BootLoadEnvFile
  \/ BootReadPort
  \/ BootListen

\* ------------------------------------------------- claims about the startup
\* the value of a variable once the file has been loaded: the one the
\* process was started with, or else the file's
AfterFileLoaded(name) ==
  IF startEnv[name] # NotText THEN startEnv[name] ELSE envFile[name]

\* C30: during startup the environment-variable file is loaded before any
\* component reads its configuration: the generic provider client is
\* constructed with the API key in effect after the file has been loaded,
\* and the port is read after the file has been loaded.
C30_EnvFileLoadedBeforeConfigRead ==
  /\ openaiApiKey # NotRead => openaiApiKey = AfterFileLoaded("OPENAI_API_KEY")
  /\ PORT # NotRead => PORT = PortOr(AfterFileLoaded("PORT"), DefaultPort)

\* the port is read after the file has been loaded, and the client has the
\* key in effect after the load when the process was started with a key or
\* the file has none
C30_PortAfterFileAndKeyFromStartEnv ==
  /\ PORT # NotRead => PORT = PortOr(AfterFileLoaded("PORT"), DefaultPort)
  /\ listeningOn # NotRead => listeningOn = PORT
  /\ (/\ openaiApiKey # NotRead
      /\ startEnv["OPENAI_API_KEY"] # NotText
           \/ envFile["OPENAI_API_KEY"] = NotText)
       => openaiApiKey = AfterFileLoaded("OPENAI_API_KEY")

\* the key is set in the file only: the server listens on the file's port
\* with a client that was built without a key
C30_ClientBuiltBeforeFileLoaded ==
  /\ bootPc = "listening"
  /\ startEnv = [name \in EnvNames |-> NotText]
  /\ envFile = [name \in EnvNames |-> <<"a">>]
  /\ serverEnv["OPENAI_API_KEY"] = <<"a">>
  /\ openaiApiKey = NotText
  /\ listeningOn = <<"a">>

\* ---------------------------------------------------------- specifications
InitCli == CliInit /\ SvcIdle /\ RepoIdle /\ DirIdle /\ ClientIdle /\ RefactorIdle /\ ArgsIdle /\ ServerIdle /\ HourIdle /\ CapIdle /\ GreetIdle /\ BootIdle
SpecCli == InitCli /\ [][CliNext]_vars

InitSvc == SvcInit /\ CliIdle /\ RepoIdle /\ DirIdle /\ ClientIdle /\ RefactorIdle /\ ArgsIdle /\ ServerIdle /\ HourIdle /\ CapIdle /\ GreetIdle /\ BootIdle
SpecSvc == InitSvc /\ [][SvcNext]_vars

InitRepo == RepoInit /\ CliIdle /\ DirIdle /\ ClientIdle /\ RefactorIdle /\ ArgsIdle /\ ServerIdle /\ HourIdle /\ CapIdle /\ GreetIdle /\ BootIdle
SpecRepo == InitRepo /\ [][RepoNext]_vars

InitDir == DirInit /\ CliIdle /\ RepoIdle /\ ClientIdle /\ RefactorIdle /\ ArgsIdle /\ ServerIdle /\ HourIdle /\ CapIdle /\ GreetIdle /\ BootIdle
SpecDir == InitDir /\ [][DirNext]_vars

InitClient == ClientInit /\ CliIdle /\ SvcIdle /\ RepoIdle /\ DirIdle /\ RefactorIdle /\ ArgsIdle /\ ServerIdle /\ HourIdle /\ CapIdle /\ GreetIdle /\ BootIdle
SpecClient == InitClient /\ [][ClientNext]_vars

InitRefactor == RefactorInit /\ CliIdle /\ RepoIdle /\ DirIdle /\ ClientIdle /\ ArgsIdle /\ ServerIdle /\ HourIdle /\ CapIdle /\ GreetIdle /\ BootIdle
SpecRefactor == InitRefactor /\ [][RefactorNext]_vars

InitArgs == ArgsInit /\ CliIdle /\ SvcIdle /\ RepoIdle /\ DirIdle /\ ClientIdle /\ RefactorIdle /\ ServerIdle /\ HourIdle /\ CapIdle /\ GreetIdle /\ BootIdle
SpecArgs == InitArgs /\ [][ArgsNext]_vars

InitServer == ServerInit /\ CliIdle /\ SvcIdle /\ RepoIdle /\ DirIdle /\ ClientIdle /\ RefactorIdle /\ ArgsIdle /\ HourIdle /\ CapIdle /\ GreetIdle /\ BootIdle
SpecServer == InitServer /\ [][ServerNext]_vars

\* the event loop runs the 'close' event once it is due; when a client ends
\* its connection is not up to the server
SpecServerFair == SpecServer /\ WF_vars(ServerEmitClose)

\* the same with clients that do end their connections
SpecServerClientsLeave == SpecServerFair /\ WF_vars(ConnectionEnds)

InitHour == HourInit /\ CliIdle /\ SvcIdle /\ RepoIdle /\ DirIdle /\ ClientIdle /\ RefactorIdle /\ ArgsIdle /\ ServerIdle /\ CapIdle /\ GreetIdle /\ BootIdle
SpecHour == InitHour /\ [][HourNext]_vars

InitCap == CapInit /\ CliIdle /\ SvcIdle /\ RepoIdle /\ DirIdle /\ ClientIdle /\ RefactorIdle /\ ArgsIdle /\ ServerIdle /\ HourIdle /\ GreetIdle /\ BootIdle
SpecCap == InitCap /\ [][CapNext]_vars

InitGreet == GreetInit /\ CliIdle /\ SvcIdle /\ RepoIdle /\ DirIdle /\ ClientIdle /\ RefactorIdle /\ ArgsIdle /\ ServerIdle /\ HourIdle /\ CapIdle /\ BootIdle
SpecGreet == InitGreet /\ [][GreetNext]_vars

InitBoot == BootInit /\ CliIdle /\ SvcIdle /\ RepoIdle /\ DirIdle /\ ClientIdle /\ RefactorIdle /\ ArgsIdle /\ ServerIdle /\ HourIdle /\ CapIdle /\ GreetIdle
SpecBoot == InitBoot /\ [][BootNext]_vars

====
